---- MODULE Spec2Model ----
(***************************************************************************)
(* Model of the messenger-analyzer ingestion pipeline: format detection,   *)
(* the format adapters (Facebook JSON, Instagram JSON, Line TXT, WhatsApp  *)
(* TXT), the adapter router and the conversation merger.                   *)
(*                                                                         *)
(* Representation.                                                         *)
(*  - A file name is a sequence of one-character strings, so that          *)
(*    toLowerCase, endsWith and generateId can be computed on it.          *)
(*  - A file content is a sequence of lines (the result of split('\n')).   *)
(*    A line is a record whose kind says which of the adapters' regular    *)
(*    expressions it matches and whose fields are the captured groups.     *)
(*  - A JSON document is a line of kind "json"; its data field is what     *)
(*    JSON.parse returns: Null for a syntax error, else <<value>>.  A JSON *)
(*    object is a record that has exactly the properties that are present. *)
(*  - null / undefined is Null == <<>>, a present optional value is <<v>>. *)
(*  - A Date is represented by its getTime() value.  Time is counted in    *)
(*    minutes; day d, hour h, minute m is d * 1440 + h * 60 + m.           *)
(*  - Message objects live in heap (object id -> fields) once the App      *)
(*    holds them, because the merger rewrites them in place.               *)
(***************************************************************************)
EXTENDS Integers, Sequences, FiniteSets, TLC

VARIABLES
    file,                   \* SpecAdapters: the file handed to one function
    call,                   \* SpecAdapters: which function was applied to it
    ret,                    \* SpecAdapters: what it returned
    files,                  \* the uploaded batch
    pos,                    \* parseConversations: index of the next file
    results,                \* parseConversations: results array
    errors,                 \* parseConversations: errors array
    parsedConversations,    \* App state: adapter output
    mappings,               \* the mapping list handed to the merger
    heap,                   \* message objects, by identity
    conversations,          \* App state: the conversation list shown
    merges,                 \* number of mergeConversations calls so far
    mappingPairs            \* IdentityMapper state: the rows of from/to selections

vars == <<file, call, ret, files, pos, results, errors,
          parsedConversations, mappings, heap, conversations, merges, mappingPairs>>

----------------------------------------------------------------------------
(* Bounds of the model *)

MaxLines == 3       \* body lines of a generated text file
MaxMsgs == 2        \* message records of a generated JSON file
MaxFiles == 2       \* files of an uploaded batch (router)
MaxConvs == 3       \* conversations handed to the merger
MaxMappings == 2    \* mappings handed to the merger
MaxMerges == 2      \* calls of mergeConversations on the same adapter output
MaxIntKey == 9      \* largest integer-like property key recognised
MaxDetectLines == 2 \* lines of a file handed to detectFormat alone
MaxPairs == 2       \* rows of the identity mapper

----------------------------------------------------------------------------
(* Generic helpers *)

Null == <<>>
Some(x) == <<x>>

Min(S) == CHOOSE x \in S : \A y \in S : x <= y

Range(s) == {s[i] : i \in 1..Len(s)}

SeqsUpTo(S, n) == UNION {[1..k -> S] : k \in 0..n}

\* Map.set / object property assignment
MapSet(map, k, v) == [x \in (DOMAIN map) \cup {k} |-> IF x = k THEN v ELSE map[x]]

RECURSIVE Join(_, _)
\* Array.prototype.join on an array of strings
Join(s, sep) ==
    IF Len(s) = 0 THEN ""
    ELSE IF Len(s) = 1 THEN s[1]
    ELSE s[1] \o sep \o Join(Tail(s), sep)

RECURSIVE Concat(_)
\* the string spelled by a sequence of characters
Concat(cs) == IF Len(cs) = 0 THEN "" ELSE cs[1] \o Concat(Tail(cs))

RECURSIVE FilterSeq(_, _)
\* Array.prototype.filter(keep) for a set-valued predicate keep (of indices)
FilterSeq(s, keep) ==
    IF Len(s) = 0 THEN <<>>
    ELSE LET rest == FilterSeq(Tail(s), {i - 1 : i \in keep \ {1}})
         IN IF 1 \in keep THEN <<s[1]>> \o rest ELSE rest

\* Insert x into the sorted sequence s after every element whose key is <= key(x)
RECURSIVE InsertBy(_, _, _)
InsertBy(s, x, k) ==
    IF Len(s) = 0 THEN <<x>>
    ELSE IF k[s[1]] <= k[x] THEN <<s[1]>> \o InsertBy(Tail(s), x, k)
    ELSE <<x>> \o s

RECURSIVE SortFrom(_, _, _)
SortFrom(s, k, acc) ==
    IF Len(s) = 0 THEN acc ELSE SortFrom(Tail(s), k, InsertBy(acc, s[1], k))

\* Array.prototype.sort((a, b) => key(a) - key(b)): a stable sort, ascending.
\* k is a function from the elements of s to their integer keys.
SortByKey(s, k) == SortFrom(s, k, <<>>)

----------------------------------------------------------------------------
(* File names *)

UpperChars == <<"A", "B", "C", "D", "E", "F", "G", "H", "I", "J", "K", "L", "M",
                "N", "O", "P", "Q", "R", "S", "T", "U", "V", "W", "X", "Y", "Z">>
LowerChars == <<"a", "b", "c", "d", "e", "f", "g", "h", "i", "j", "k", "l", "m",
                "n", "o", "p", "q", "r", "s", "t", "u", "v", "w", "x", "y", "z">>
DigitChars == <<"0", "1", "2", "3", "4", "5", "6", "7", "8", "9">>

\* String.prototype.toLowerCase, one character
LowerChar(c) ==
    IF \E i \in DOMAIN UpperChars : UpperChars[i] = c
    THEN LowerChars[CHOOSE i \in DOMAIN UpperChars : UpperChars[i] = c]
    ELSE c

toLowerCase(cs) == [i \in DOMAIN cs |-> LowerChar(cs[i])]

endsWith(cs, suffix) ==
    /\ Len(cs) >= Len(suffix)
    /\ SubSeq(cs, Len(cs) - Len(suffix) + 1, Len(cs)) = suffix

\* the character class [a-zA-Z0-9]
IsAlnum(c) == c \in Range(UpperChars) \cup Range(LowerChars) \cup Range(DigitChars)

\* fileName.replace(/[^a-zA-Z0-9]/g, '-').toLowerCase()
generateId(fileName) ==
    Concat(toLowerCase([i \in DOMAIN fileName |->
                            IF IsAlnum(fileName[i]) THEN fileName[i] ELSE "-"]))

DotJson == <<".", "j", "s", "o", "n">>
DotTxt == <<".", "t", "x", "t">>

----------------------------------------------------------------------------
(* File contents: lines *)

\* kinds of line
\*   title : (BOM)? "Chat history with " name
\*   blank : empty or whitespace only
\*   text  : any other text; phrase says whether it contains "Chat history with"
\*   date  : Line date header  "Fri, DD/MM/YYYY", day = the day it denotes
\*   lmsg  : Line message      "HH:MM<TAB>sender<TAB>text"
\*   wmsg  : WhatsApp message  "YYYY-MM-DD, H:MM a.m./p.m. - Sender: Text"
\*   wsys  : WhatsApp system   "YYYY-MM-DD, H:MM a.m./p.m. - Text" (no "Sender: ")
\*   json  : a JSON document; open is its first character
TitleLine(bom, name) == [kind |-> "title", bom |-> bom, name |-> name]
BlankLine == [kind |-> "blank"]
TextLine(text, phrase) == [kind |-> "text", text |-> text, phrase |-> phrase]
DateLine(day) == [kind |-> "date", day |-> day]
LMsgLine(hh, mm, sender, text) ==
    [kind |-> "lmsg", hh |-> hh, mm |-> mm, sender |-> sender, text |-> text]
WMsgLine(day, hour, minute, period, sender, text) ==
    [kind |-> "wmsg", day |-> day, hour |-> hour, minute |-> minute,
     period |-> period, sender |-> sender, text |-> text]
WSysLine(day, hour, minute, period, text) ==
    [kind |-> "wsys", day |-> day, hour |-> hour, minute |-> minute,
     period |-> period, text |-> text]
JsonLine(open, data) == [kind |-> "json", open |-> open, data |-> data]

\* the characters of a line, as far as the adapters copy them
RawLine(line) ==
    CASE line.kind = "title" -> "Chat history with " \o line.name
      [] line.kind = "blank" -> ""
      [] line.kind = "text" -> line.text
      [] line.kind = "date" -> "Day, " \o ToString(line.day)
      [] line.kind = "lmsg" ->
            ToString(line.hh) \o ":" \o ToString(line.mm) \o "\t" \o line.sender
                \o "\t" \o line.text
      [] line.kind = "wmsg" ->
            ToString(line.day) \o ", " \o ToString(line.hour) \o ":"
                \o ToString(line.minute) \o " " \o line.period \o " - "
                \o line.sender \o ": " \o line.text
      [] line.kind = "wsys" ->
            ToString(line.day) \o ", " \o ToString(line.hour) \o ":"
                \o ToString(line.minute) \o " " \o line.period \o " - " \o line.text
      [] OTHER -> "{}"

\* line.includes('Chat history with')
includesPhrase(line) ==
    \/ line.kind = "title"
    \/ line.kind = "text" /\ line.phrase

\* content.trim(): leading and trailing blank lines go
RECURSIVE TrimLeft(_)
TrimLeft(content) ==
    IF Len(content) = 0 THEN content
    ELSE IF content[1].kind = "blank" THEN TrimLeft(Tail(content))
    ELSE content

\* trimmedContent.startsWith(ch)
startsWith(trimmed, ch) ==
    /\ Len(trimmed) > 0
    /\ trimmed[1].kind = "json"
    /\ trimmed[1].open = ch

----------------------------------------------------------------------------
(* Format detection: adapters/index.js *)

detectFormatContentFirst(f) ==
    LET trimmedContent == TrimLeft(f.content)
    IN  IF startsWith(trimmedContent, "{") \/ startsWith(trimmedContent, "[")
        THEN "json"
        ELSE IF \E i \in DOMAIN f.content : includesPhrase(f.content[i]) THEN "line"
        ELSE "unknown"

detectFormat(f) ==
    LET fileName == toLowerCase(f.name)
        firstLine == f.content[1]
        trimmedContent == TrimLeft(f.content)
    IN  IF endsWith(fileName, DotJson) THEN "json"
        ELSE IF endsWith(fileName, DotTxt)
        THEN IF includesPhrase(firstLine) THEN "line" ELSE "unknown-txt"
        ELSE IF startsWith(trimmedContent, "{") \/ startsWith(trimmedContent, "[")
        THEN "json"
        ELSE IF \E i \in DOMAIN trimmedContent : includesPhrase(trimmedContent[i])
        THEN "line"
        ELSE "unknown"

----------------------------------------------------------------------------
(* Results of functions that may throw *)

Return(v) == [ok |-> TRUE, value |-> v]
Throw(msg) == [ok |-> FALSE, error |-> msg]

\* property access on a JSON object: absent string -> "", absent number -> 0
Has(o, f) == f \in DOMAIN o
StrOf(o, f) == IF Has(o, f) THEN o[f] ELSE ""
NumOf(o, f) == IF Has(o, f) THEN o[f] ELSE 0
SeqOf(o, f) == IF Has(o, f) THEN o[f] ELSE <<>>
BoolOf(o, f) == IF Has(o, f) THEN o[f] ELSE FALSE

\* a normalized Message, as the adapters build it
Message(sender, content, timestamp, type, mediaType, isUnsent, reactions) ==
    [sender |-> sender, content |-> content, timestamp |-> timestamp,
     date |-> timestamp, type |-> type,
     metadata |-> [isUnsent |-> isUnsent, reactions |-> reactions,
                   mediaType |-> mediaType]]

\* messages.sort((a, b) => a.timestamp - b.timestamp)
sortMessagesDropped(messages) == messages
sortMessages(messages) ==
    SortByKey(messages, [m \in Range(messages) |-> m.timestamp])

dateRangeOfFirstOnly(messages) ==
    [start |-> IF Len(messages) = 0 THEN Null ELSE Some(messages[1].date),
     end |-> IF Len(messages) = 0 THEN Null ELSE Some(messages[1].date)]

\* { start: messages[0]?.date || null, end: messages[messages.length - 1]?.date || null }
dateRangeOf(messages) ==
    [start |-> IF Len(messages) = 0 THEN Null ELSE Some(messages[1].date),
     end |-> IF Len(messages) = 0 THEN Null ELSE Some(messages[Len(messages)].date)]

----------------------------------------------------------------------------
(* JSON adapter: adapters/jsonAdapter.js *)

\* decodeURIComponent(escape(text)): text stored as Latin-1 bytes of UTF-8 is
\* re-read as UTF-8; text that is not such a byte sequence is returned as it is.
\* "latin1:" marks the sample strings that are stored mis-encoded.
decodeFacebookText(text) ==
    CASE text = "latin1:Zoe" -> "Zoe"
      [] text = "latin1:cafe" -> "cafe"
      [] OTHER -> text

\* JSON.parse(content): Null stands for the SyntaxError
JSONparse(content) ==
    LET body == FilterSeq(content, {i \in DOMAIN content : content[i].kind # "blank"})
    IN  IF Len(body) = 1 /\ body[1].kind = "json" THEN body[1].data ELSE Null

instagramKeep(msg) ==
    /\ ~BoolOf(msg, "isUnsent")
    /\ (StrOf(msg, "text") # "" \/ Len(SeqOf(msg, "media")) > 0)

instagramMessage(msg) ==
    IF StrOf(msg, "text") # ""
    THEN Message(StrOf(msg, "senderName"), msg.text, NumOf(msg, "timestamp"),
                 "text", Null, BoolOf(msg, "isUnsent"), SeqOf(msg, "reactions"))
    ELSE IF Len(SeqOf(msg, "media")) > 0
    THEN Message(StrOf(msg, "senderName"), "[Media]", NumOf(msg, "timestamp"),
                 "media", Some("unknown"), BoolOf(msg, "isUnsent"),
                 SeqOf(msg, "reactions"))
    ELSE Message(StrOf(msg, "senderName"), "", NumOf(msg, "timestamp"),
                 "text", Null, BoolOf(msg, "isUnsent"), SeqOf(msg, "reactions"))

\* .filter(msg => msg.timestamp && msg.sender && msg.content)
finalKeep(m) == m.timestamp # 0 /\ m.sender # "" /\ m.content # ""

parseInstagramJSON(data, fileName) ==
    LET names == SeqOf(data, "participants")
        participants == [i \in DOMAIN names |->
            [name |-> names[i], platform |-> "instagram", rawIdentifier |-> names[i]]]
        raw == data.messages
        kept == FilterSeq(raw, {i \in DOMAIN raw : instagramKeep(raw[i])})
        mapped == [i \in DOMAIN kept |-> instagramMessage(kept[i])]
        messages == sortMessages(
            FilterSeq(mapped, {i \in DOMAIN mapped : finalKeep(mapped[i])}))
        threadName == StrOf(data, "threadName")
    IN  [source |-> "instagram",
         conversationId |-> IF threadName # "" THEN threadName ELSE generateId(fileName),
         title |-> IF threadName # "" THEN threadName
                   ELSE Join([i \in DOMAIN participants |-> participants[i].name], ", "),
         participants |-> participants,
         messages |-> messages,
         dateRange |-> dateRangeOf(messages),
         totalMessages |-> Len(messages),
         rawFileName |-> Concat(fileName)]

facebookKeep(msg) ==
    \/ StrOf(msg, "content") # ""
    \/ Has(msg, "photos") \/ Has(msg, "videos")
    \/ Has(msg, "audio_files") \/ Has(msg, "files")

facebookMessage(msg) ==
    LET sender == decodeFacebookText(StrOf(msg, "sender_name"))
        ts == NumOf(msg, "timestamp_ms")
        media(tag, mediaType) ==
            Message(sender, tag, ts, "media", Some(mediaType), FALSE,
                    SeqOf(msg, "reactions"))
    IN  IF StrOf(msg, "content") # ""
        THEN Message(sender, decodeFacebookText(msg.content), ts, "text", Null, FALSE,
                     SeqOf(msg, "reactions"))
        ELSE IF Has(msg, "photos") THEN media("[Photo]", "photo")
        ELSE IF Has(msg, "videos") THEN media("[Video]", "video")
        ELSE IF Has(msg, "audio_files") THEN media("[Audio]", "audio")
        ELSE IF Has(msg, "files") THEN media("[File]", "file")
        ELSE IF Has(msg, "share") THEN media("[Shared link]", "link")
        ELSE media("[Media]", "unknown")

parseFacebookJSON(data, fileName) ==
    LET ps == SeqOf(data, "participants")
        participants == [i \in DOMAIN ps |->
            [name |-> decodeFacebookText(StrOf(ps[i], "name")), platform |-> "facebook",
             rawIdentifier |-> StrOf(ps[i], "name")]]
        raw == data.messages
        kept == FilterSeq(raw, {i \in DOMAIN raw : facebookKeep(raw[i])})
        mapped == [i \in DOMAIN kept |-> facebookMessage(kept[i])]
        messages == sortMessages(
            FilterSeq(mapped, {i \in DOMAIN mapped : finalKeep(mapped[i])}))
        title == decodeFacebookText(StrOf(data, "title"))
    IN  [source |-> "facebook",
         conversationId |-> generateId(fileName),
         title |-> IF title # "" THEN title
                   ELSE Join([i \in DOMAIN participants |-> participants[i].name], ", "),
         participants |-> participants,
         messages |-> messages,
         dateRange |-> dateRangeOf(messages),
         totalMessages |-> Len(messages),
         rawFileName |-> Concat(fileName)]

parseJSONFormatFacebookDefault(content, fileName) ==
    LET parsed == JSONparse(content)
        data == parsed[1]
        firstMessage == data.messages[1]
    IN  IF parsed = Null THEN Throw("Unexpected token in JSON")
        ELSE IF ~Has(data, "messages") \/ Len(data.messages) = 0
        THEN Throw("No messages found in JSON file")
        ELSE IF Has(firstMessage, "senderName")
        THEN Return(parseInstagramJSON(data, fileName))
        ELSE Return(parseFacebookJSON(data, fileName))

parseJSONFormat(content, fileName) ==
    LET parsed == JSONparse(content)
        data == parsed[1]
        firstMessage == data.messages[1]
    IN  IF parsed = Null THEN Throw("Unexpected token in JSON")
        ELSE IF ~Has(data, "messages") \/ Len(data.messages) = 0
        THEN Throw("No messages found in JSON file")
        ELSE IF Has(firstMessage, "senderName")
        THEN Return(parseInstagramJSON(data, fileName))
        ELSE IF Has(firstMessage, "sender_name")
        THEN Return(parseFacebookJSON(data, fileName))
        ELSE Throw("Unknown JSON format - not Facebook or Instagram")

----------------------------------------------------------------------------
(* Text adapters: adapters/index.js (Line and WhatsApp) *)

\* Set.prototype.add on an insertion-ordered set
SetAdd(set, x) == IF x \in Range(set) THEN set ELSE Append(set, x)

participantsOf(names, platform) ==
    [i \in DOMAIN names |->
        [name |-> names[i], platform |-> platform, rawIdentifier |-> names[i]]]

normalizeLineContent(text) ==
    CASE text = "[Sticker]" -> [content |-> "[Sticker]", type |-> "sticker", mediaType |-> Some("sticker")]
      [] text = "[Photo]" -> [content |-> "[Photo]", type |-> "media", mediaType |-> Some("photo")]
      [] text = "[Video]" -> [content |-> "[Video]", type |-> "media", mediaType |-> Some("video")]
      [] text = "[Voice message]" -> [content |-> "[Audio]", type |-> "media", mediaType |-> Some("audio")]
      [] text = "[Audio]" -> [content |-> "[Audio]", type |-> "media", mediaType |-> Some("audio")]
      [] text = "[File]" -> [content |-> "[File]", type |-> "media", mediaType |-> Some("file")]
      [] OTHER -> [content |-> text, type |-> "text", mediaType |-> Null]

\* new Date(currentDate).setHours(hours, minutes, 0, 0), as getTime()
lineTimestamp(day, hh, mm) == day * 1440 + hh * 60 + mm

lineStepNoDateCheck(st, line) ==
    IF line.kind = "blank" THEN st
    ELSE IF line.kind = "date" THEN [st EXCEPT !.currentDate = Some(line.day)]
    ELSE IF line.kind = "lmsg"
    THEN LET n == normalizeLineContent(line.text)
         IN  [st EXCEPT
                !.participantSet = SetAdd(@, line.sender),
                !.messages = Append(@, Message(line.sender, n.content,
                                 lineTimestamp(IF st.currentDate = Null THEN 0
                                               ELSE st.currentDate[1], line.hh, line.mm),
                                 n.type, n.mediaType, FALSE, <<>>))]
    ELSE st

lineStepFirstHeaderWins(st, line) ==
    IF line.kind = "blank" THEN st
    ELSE IF line.kind = "date"
    THEN IF st.currentDate = Null THEN [st EXCEPT !.currentDate = Some(line.day)] ELSE st
    ELSE IF line.kind = "lmsg" /\ st.currentDate # Null
    THEN LET n == normalizeLineContent(line.text)
         IN  [st EXCEPT
                !.participantSet = SetAdd(@, line.sender),
                !.messages = Append(@, Message(line.sender, n.content,
                                 lineTimestamp(st.currentDate[1], line.hh, line.mm),
                                 n.type, n.mediaType, FALSE, <<>>))]
    ELSE st

\* one iteration of the loop over lines[3..]; st = [currentDate, messages, participantSet]
lineStep(st, line) ==
    IF line.kind = "blank" THEN st
    ELSE IF line.kind = "date" THEN [st EXCEPT !.currentDate = Some(line.day)]
    ELSE IF line.kind = "lmsg" /\ st.currentDate # Null
    THEN LET n == normalizeLineContent(line.text)
         IN  [st EXCEPT
                !.participantSet = SetAdd(@, line.sender),
                !.messages = Append(@, Message(line.sender, n.content,
                                 lineTimestamp(st.currentDate[1], line.hh, line.mm),
                                 n.type, n.mediaType, FALSE, <<>>))]
    ELSE st

RECURSIVE lineLoop(_, _, _)
lineLoop(lines, i, st) ==
    IF i > Len(lines) THEN st ELSE lineLoop(lines, i + 1, lineStep(st, lines[i]))

\* lines[0].replace(/^BOM/, '').trim().replace('Chat history with ', '') || 'Line Conversation'
lineTitle(line) ==
    LET t == IF line.kind = "title"
             THEN IF line.name = "" THEN "Chat history with" ELSE line.name
             ELSE RawLine(line)
    IN  IF t = "" THEN "Line Conversation" ELSE t

parseLineFormat(content, fileName) ==
    LET st == lineLoop(content, 4,
                  [currentDate |-> Null, messages |-> <<>>, participantSet |-> <<>>])
        messages == sortMessages(st.messages)
    IN  [source |-> "line",
         conversationId |-> generateId(fileName),
         title |-> lineTitle(content[1]),
         participants |-> participantsOf(st.participantSet, "line"),
         messages |-> messages,
         dateRange |-> dateRangeOf(messages),
         totalMessages |-> Len(messages),
         rawFileName |-> Concat(fileName)]

\* the sample texts that carry one of the media markers
normalizeWhatsAppContent(text) ==
    CASE text = "IMG-1.jpg (file attached)" ->
            [content |-> "[Photo]", type |-> "media", mediaType |-> Some("photo")]
      [] text = "VID-1.mp4 (file attached)" ->
            [content |-> "[Video]", type |-> "media", mediaType |-> Some("video")]
      [] text = "notes.pdf (file attached)" ->
            [content |-> "[Document]", type |-> "media", mediaType |-> Some("document")]
      [] text = "<Media omitted>" ->
            [content |-> "[Media]", type |-> "media", mediaType |-> Some("unknown")]
      [] text = "sticker omitted" ->
            [content |-> "[Sticker]", type |-> "sticker", mediaType |-> Some("sticker")]
      [] OTHER -> [content |-> text, type |-> "text", mediaType |-> Null]

to24HoursNoonAdds(hours, period) ==
    IF period = "p.m." THEN hours + 12
    ELSE IF period = "a.m." /\ hours = 12 THEN 0
    ELSE hours

\* 12-hour clock to 24-hour clock
to24Hours(hours, period) ==
    IF period = "p.m." /\ hours # 12 THEN hours + 12
    ELSE IF period = "a.m." /\ hours = 12 THEN 0
    ELSE hours

\* new Date(year, month - 1, day, hours, minutes, 0, 0), as getTime()
parseWhatsAppDateTime(day, hour, minute, period) ==
    day * 1440 + to24Hours(hour, period) * 60 + minute

\* messages.push(currentMessage) if there is one
pushCurrent(st) ==
    IF st.currentMessage = Null THEN st.messages
    ELSE Append(st.messages, st.currentMessage[1])

whatsAppStepDropContinuation(st, line) ==
    IF line.kind = "wmsg"
    THEN LET n == normalizeWhatsAppContent(line.text)
             ts == parseWhatsAppDateTime(line.day, line.hour, line.minute, line.period)
         IN  [messages |-> pushCurrent(st),
              participantSet |-> SetAdd(st.participantSet, line.sender),
              currentMessage |-> Some(Message(line.sender, n.content, ts, n.type,
                                              n.mediaType, FALSE, <<>>))]
    ELSE IF line.kind = "wsys"
    THEN [st EXCEPT !.messages = pushCurrent(st), !.currentMessage = Null]
    ELSE st

whatsAppStepSystemKeepsCurrent(st, line) ==
    IF line.kind = "wmsg"
    THEN LET n == normalizeWhatsAppContent(line.text)
             ts == parseWhatsAppDateTime(line.day, line.hour, line.minute, line.period)
         IN  [messages |-> pushCurrent(st),
              participantSet |-> SetAdd(st.participantSet, line.sender),
              currentMessage |-> Some(Message(line.sender, n.content, ts, n.type,
                                              n.mediaType, FALSE, <<>>))]
    ELSE IF line.kind = "wsys"
    THEN [st EXCEPT !.messages = pushCurrent(st)]
    ELSE IF st.currentMessage # Null /\ line.kind # "blank"
    THEN [st EXCEPT !.currentMessage[1].content = @ \o "\n" \o RawLine(line)]
    ELSE st

\* one iteration of the loop; st = [messages, participantSet, currentMessage]
whatsAppStep(st, line) ==
    IF line.kind = "wmsg"
    THEN LET n == normalizeWhatsAppContent(line.text)
             ts == parseWhatsAppDateTime(line.day, line.hour, line.minute, line.period)
         IN  [messages |-> pushCurrent(st),
              participantSet |-> SetAdd(st.participantSet, line.sender),
              currentMessage |-> Some(Message(line.sender, n.content, ts, n.type,
                                              n.mediaType, FALSE, <<>>))]
    ELSE IF line.kind = "wsys"
    THEN [st EXCEPT !.messages = pushCurrent(st), !.currentMessage = Null]
    ELSE IF st.currentMessage # Null /\ line.kind # "blank"
    THEN [st EXCEPT !.currentMessage[1].content = @ \o "\n" \o RawLine(line)]
    ELSE st

RECURSIVE whatsAppLoop(_, _, _)
whatsAppLoop(lines, i, st) ==
    IF i > Len(lines) THEN st
    ELSE whatsAppLoop(lines, i + 1, whatsAppStep(st, lines[i]))

whatsAppTitle(participants) ==
    IF Len(participants) = 2 THEN participants[1] \o " & " \o participants[2]
    ELSE IF Len(participants) = 1 THEN participants[1]
    ELSE "WhatsApp Chat (" \o ToString(Len(participants)) \o " participants)"

parseWhatsAppFormat(content, fileName) ==
    LET st == whatsAppLoop(content, 1,
                  [messages |-> <<>>, participantSet |-> <<>>, currentMessage |-> Null])
        messages == sortMessages(pushCurrent(st))
    IN  [source |-> "whatsapp",
         conversationId |-> generateId(fileName),
         title |-> whatsAppTitle(st.participantSet),
         participants |-> participantsOf(st.participantSet, "whatsapp"),
         messages |-> messages,
         dateRange |-> dateRangeOf(messages),
         totalMessages |-> Len(messages),
         rawFileName |-> Concat(fileName)]

----------------------------------------------------------------------------
(* Adapter router: adapters/index.js *)

\* parseConversation(file): the conversation, or the Error it throws
parseConversation(f) ==
    LET format == detectFormat(f)
        r == CASE format = "json" -> parseJSONFormat(f.content, f.name)
               [] format = "line" -> Return(parseLineFormat(f.content, f.name))
               [] format = "unknown-txt" ->
                    Throw("Text file format not recognized. Currently supported: Line Messenger")
               [] format = "unknown" ->
                    Throw("File format not recognized. Supported: JSON (Facebook/Instagram), TXT (Line Messenger)")
               [] OTHER -> Throw("Unsupported format: " \o format)
    IN  IF r.ok THEN r
        ELSE Throw("Failed to parse " \o Concat(f.name) \o ": " \o r.error)

----------------------------------------------------------------------------
(* Inputs: file names *)

NameFbJson == <<"f", "b", ".", "j", "s", "o", "n">>
NameIgJson == <<"I", "G", ".", "J", "S", "O", "N">>
NameLineTxt == <<"c", "h", "a", "t", ".", "t", "x", "t">>
NameWaTxt == <<"W", "A", ".", "T", "X", "T">>
NameBare == <<"c", "h", "a", "t">>
NameTxtNoDot == <<"t", "x", "t">>
NameJsonTxt == <<"a", ".", "j", "s", "o", "n", ".", "t", "x", "t">>
NameMerged0 == <<"m", "e", "r", "g", "e", "d", "-", "0">>

FileNames == {NameFbJson, NameIgJson, NameLineTxt, NameWaTxt, NameBare,
              NameTxtNoDot, NameJsonTxt, NameMerged0}

File(name, content) == [name |-> name, content |-> content]

----------------------------------------------------------------------------
(* Inputs: JSON documents *)

IgText(sender, text, ts) == [senderName |-> sender, text |-> text, timestamp |-> ts]
FbText(sender, content, ts) ==
    [sender_name |-> sender, content |-> content, timestamp_ms |-> ts]

JsonMsgPool ==
    { IgText("alice_ig", "hi", 20),
      IgText("Bob", "yo", 10),
      [senderName |-> "Bob", media |-> <<"clip">>, timestamp |-> 30],
      [senderName |-> "Bob", text |-> "oops", timestamp |-> 5, isUnsent |-> TRUE],
      [senderName |-> "alice_ig", text |-> "no time"],
      FbText("Alice", "hello", 15),
      FbText("latin1:Zoe", "latin1:cafe", 35),
      [sender_name |-> "Bob", photos |-> <<"p.jpg">>, timestamp_ms |-> 5],
      [sender_name |-> "Bob", share |-> [link |-> "http://x"], timestamp_ms |-> 25],
      [sender_name |-> "Bob", timestamp_ms |-> 45],
      [senderName |-> "alice_ig", sender_name |-> "Alice", text |-> "both", timestamp |-> 40],
      [from |-> "Eve", body |-> "other schema"] }

\* the document around a message array: Instagram-shaped when the first record
\* has senderName, Facebook-shaped otherwise
JsonDocsOf(messages) ==
    IF Len(messages) > 0 /\ Has(messages[1], "senderName")
    THEN { [participants |-> <<"alice_ig", "Bob">>, messages |-> messages],
           [participants |-> <<"alice_ig", "Bob">>, messages |-> messages,
            threadName |-> "7"] }
    ELSE { [participants |-> <<[name |-> "Alice"], [name |-> "Bob"]>>,
            messages |-> messages, title |-> "latin1:Zoe"],
           [messages |-> messages] }

JsonDocs == UNION {JsonDocsOf(ms) : ms \in SeqsUpTo(JsonMsgPool, MaxMsgs)}

JsonContents ==
    {<<JsonLine("{", Some(d))>> : d \in JsonDocs}
        \cup { <<JsonLine("{", Null)>>,                  \* malformed
               <<JsonLine("[", Some(<<>>))>>,            \* an array: no messages property
               <<JsonLine("{", Some([participants |-> <<"Bob">>]))>>,
               <<BlankLine, JsonLine("{", Some([messages |-> <<IgText("Bob", "yo", 10)>>])),
                 BlankLine>>,
               <<JsonLine("{", Some([participants |-> <<"Bob", "Bob">>,   \* a name twice
                                     messages |-> <<IgText("Bob", "yo", 10)>>]))>> }

----------------------------------------------------------------------------
(* Inputs: text files *)

WhatsAppLinePool ==
    { WMsgLine(1, 4, 23, "a.m.", "Tom", "Hello"),
      WMsgLine(1, 12, 5, "a.m.", "Ann", ""),
      WMsgLine(1, 11, 45, "p.m.", "Tom", "<Media omitted>"),
      WMsgLine(2, 12, 30, "p.m.", "Ann", "lunch"),
      WMsgLine(1, 13, 5, "p.m.", "Tom", "late"),
      WSysLine(1, 9, 0, "a.m.", "Tom joined using this group's invite link"),
      TextLine("world", FALSE),
      TextLine("again", FALSE),
      BlankLine }

WhatsAppContents == SeqsUpTo(WhatsAppLinePool, MaxLines) \ {<<>>}

LineBodyPool ==
    { DateLine(2),
      DateLine(1),
      LMsgLine(23, 37, "Tom", "Hello!"),
      LMsgLine(9, 5, "Ann", "[Sticker]"),
      TextLine("junk", FALSE),
      BlankLine }

LineHeaders ==
    { <<TitleLine(b, "Tom"), TextLine("Saved on: 01/03/2024, 10:00", FALSE), BlankLine>>
        : b \in BOOLEAN }
        \cup { <<TitleLine(FALSE, "Tom"), TextLine("Saved on: 01/03/2024, 10:00", FALSE),
                 DateLine(1)>> }      \* the third line is a date header

LineContents == {h \o body : h \in LineHeaders, body \in SeqsUpTo(LineBodyPool, MaxLines)}

----------------------------------------------------------------------------
(* Specification SpecDetect: detectFormat applied to one file *)

DetectLinePool ==
    { TitleLine(TRUE, "Tom"), TitleLine(FALSE, "Tom"), BlankLine,
      TextLine("hello", FALSE), TextLine("fwd: Chat history with Tom", TRUE),
      JsonLine("{", Null), JsonLine("[", Some(<<>>)),
      WMsgLine(1, 4, 23, "a.m.", "Tom", "Hello") }

DetectFiles ==
    {File(n, c) : n \in FileNames, c \in SeqsUpTo(DetectLinePool, MaxDetectLines) \ {<<>>}}

Idle ==
    /\ files = <<>> /\ pos = 0 /\ results = <<>> /\ errors = <<>>
    /\ parsedConversations = <<>> /\ mappings = <<>> /\ heap = <<>>
    /\ conversations = <<>> /\ merges = 0 /\ mappingPairs = <<>>

IdleUnchanged ==
    UNCHANGED <<files, pos, results, errors, parsedConversations, mappings, heap,
                conversations, merges, mappingPairs>>

InitDetect ==
    /\ file \in DetectFiles
    /\ call = "none"
    /\ ret = Null
    /\ Idle

CallDetectFormat ==
    /\ call = "none"
    /\ call' = "detectFormat"
    /\ ret' = Return(detectFormat(file))
    /\ UNCHANGED file
    /\ IdleUnchanged

NextDetect == CallDetectFormat

SpecDetect == InitDetect /\ [][NextDetect]_vars

----------------------------------------------------------------------------
(* Specification SpecAdapters: one adapter applied to one file content *)

AdapterFiles ==
    {File(n, c) : n \in {NameFbJson, NameIgJson}, c \in JsonContents}
        \cup {File(NameWaTxt, c) : c \in WhatsAppContents}
        \cup {File(NameLineTxt, c) : c \in LineContents}

InitAdapters ==
    /\ file \in AdapterFiles
    /\ call = "none"
    /\ ret = Null
    /\ Idle

CallParseJSONFormat ==
    /\ call = "none"
    /\ call' = "parseJSONFormat"
    /\ ret' = parseJSONFormat(file.content, file.name)
    /\ UNCHANGED file
    /\ IdleUnchanged

CallParseLineFormat ==
    /\ call = "none"
    /\ call' = "parseLineFormat"
    /\ ret' = Return(parseLineFormat(file.content, file.name))
    /\ UNCHANGED file
    /\ IdleUnchanged

CallParseWhatsAppFormat ==
    /\ call = "none"
    /\ call' = "parseWhatsAppFormat"
    /\ ret' = Return(parseWhatsAppFormat(file.content, file.name))
    /\ UNCHANGED file
    /\ IdleUnchanged

NextAdapters ==
    \/ CallParseJSONFormat
    \/ CallParseLineFormat
    \/ CallParseWhatsAppFormat

SpecAdapters == InitAdapters /\ [][NextAdapters]_vars

Returned == call # "none" /\ ret # Null /\ ret.ok

nonDecreasing(messages) ==
    \A i, j \in DOMAIN messages : i < j => messages[i].timestamp <= messages[j].timestamp

----------------------------------------------------------------------------
(* Claims about the adapters (SpecAdapters) and the detector (SpecDetect) *)

\* C4: every conversation an adapter returns (Facebook or Instagram JSON, Line
\* TXT, WhatsApp TXT) has its messages sorted non-decreasing by timestamp,
\* whatever the order of the records in the file.
C4_MessagesSorted == Returned => nonDecreasing(ret.value.messages)

\* the WhatsApp messages in the order the loop emitted them, before the sort
WhatsAppEmitted(content) ==
    pushCurrent(whatsAppLoop(content, 1,
        [messages |-> <<>>, participantSet |-> <<>>, currentMessage |-> Null]))

\* C4 witness: a WhatsApp file whose message lines are out of time order was parsed.
C4_Witness ==
    /\ Returned
    /\ call = "parseWhatsAppFormat"
    /\ Len(ret.value.messages) >= 2
    /\ ~nonDecreasing(WhatsAppEmitted(file.content))

\* C5: every Message an adapter emits has a non-null sender, a non-empty content
\* and a positive integer timestamp.
C5_MessagesWellFormed ==
    Returned =>
        \A i \in DOMAIN ret.value.messages :
            LET m == ret.value.messages[i]
            IN  m.sender # "" /\ m.content # "" /\ m.timestamp \in Nat \ {0}

\* the name's extension, compared without regard to case
ExtensionIs(name, ext) ==
    /\ Len(name) >= Len(ext)
    /\ \A i \in DOMAIN ext : LowerChar(name[Len(name) - Len(ext) + i]) = ext[i]

FirstNonBlank(content) ==
    LET idx == {i \in DOMAIN content : content[i].kind # "blank"}
    IN  IF idx = {} THEN Null ELSE Some(content[Min(idx)])

OpensJson(content) ==
    /\ FirstNonBlank(content) # Null
    /\ FirstNonBlank(content)[1].kind = "json"
    /\ FirstNonBlank(content)[1].open \in {"{", "["}

\* C9: detectFormat never raises and classifies by strict priority: extension
\* .json gives json whatever the content; extension .txt gives line iff the first
\* line contains "Chat history with" (with or without a byte-order marker) and
\* unknown-txt otherwise, even if a later line contains the phrase; with neither
\* extension, trimmed content starting with { or [ gives json, else content that
\* contains the phrase anywhere gives line, else unknown.
C9_DetectPriority ==
    call = "detectFormat" =>
        /\ ret.ok
        /\ ret.value =
            IF ExtensionIs(file.name, DotJson) THEN "json"
            ELSE IF ExtensionIs(file.name, DotTxt)
            THEN IF file.content[1].kind \in {"title"}
                    \/ (file.content[1].kind = "text" /\ file.content[1].phrase)
                 THEN "line" ELSE "unknown-txt"
            ELSE IF OpensJson(file.content) THEN "json"
            ELSE IF \E i \in DOMAIN file.content :
                        \/ file.content[i].kind = "title"
                        \/ file.content[i].kind = "text" /\ file.content[i].phrase
            THEN "line"
            ELSE "unknown"

\* C9 witness: a .txt file whose first line lacks the phrase and whose second line
\* has it was classified unknown-txt.
C9_Witness ==
    /\ call = "detectFormat"
    /\ ExtensionIs(file.name, DotTxt)
    /\ Len(file.content) = 2
    /\ file.content[1].kind = "blank"
    /\ file.content[2].kind = "title"
    /\ ret.value = "unknown-txt"

\* the outcome classes of parseJSONFormat
MalformedJSON == "Unexpected token in JSON"
MissingMessages == "No messages found in JSON file"
UnknownJSONSchema == "Unknown JSON format - not Facebook or Instagram"

ParsedJSON == call = "parseJSONFormat"

\* C11: parseJSONFormat classifies every input by one decision sequence:
\* unparseable text fails (MalformedJSON); data without a non-empty messages array
\* fails (MissingMessages); otherwise only the first message record is probed:
\* Instagram parser if it has senderName (also with sender_name present), Facebook
\* parser if it has sender_name only, failure (UnknownJSONSchema) if it has
\* neither, whatever the fields of the later messages.
C11_JSONDecisionSequence ==
    ParsedJSON =>
        LET parsed == JSONparse(file.content)
        IN  IF parsed = Null THEN ~ret.ok /\ ret.error = MalformedJSON
            ELSE IF ~Has(parsed[1], "messages") \/ Len(parsed[1].messages) = 0
            THEN ~ret.ok /\ ret.error = MissingMessages
            ELSE IF Has(parsed[1].messages[1], "senderName")
            THEN ret.ok /\ ret.value.source = "instagram"
            ELSE IF Has(parsed[1].messages[1], "sender_name")
            THEN ret.ok /\ ret.value.source = "facebook"
            ELSE ~ret.ok /\ ret.error = UnknownJSONSchema

\* C11 witness: the first record has both senderName and sender_name, the second
\* is a Facebook record, and the Instagram parser was used.
C11_Witness ==
    /\ ParsedJSON /\ ret.ok
    /\ JSONparse(file.content) # Null
    /\ LET ms == JSONparse(file.content)[1].messages
       IN  /\ Len(ms) = 2
           /\ Has(ms[1], "senderName") /\ Has(ms[1], "sender_name")
           /\ ~Has(ms[2], "senderName") /\ Has(ms[2], "sender_name")
    /\ ret.value.source = "instagram"

\* the fixed tag and mediaType of the first media field a Facebook record carries
MediaFields == <<"photos", "videos", "audio_files", "files", "share">>
MediaTags == <<"[Photo]", "[Video]", "[Audio]", "[File]", "[Shared link]">>
MediaTypes == <<"photo", "video", "audio", "file", "link">>
CarriesMedia(msg) == \E k \in DOMAIN MediaFields : Has(msg, MediaFields[k])
FirstMedia(msg) == Min({k \in DOMAIN MediaFields : Has(msg, MediaFields[k])})

\* C12: in the Facebook path every record without text content that has a
\* timestamp and a sender is emitted with the fixed tag of the first media field
\* it carries (photos, videos, audio_files, files, share, in that order) and the
\* matching mediaType; a record whose only payload is share is emitted as
\* [Shared link].
C12_FacebookMediaTags ==
    (ParsedJSON /\ ret.ok /\ ret.value.source = "facebook") =>
        LET raw == JSONparse(file.content)[1].messages
        IN  \A i \in DOMAIN raw :
                (/\ StrOf(raw[i], "content") = ""
                 /\ NumOf(raw[i], "timestamp_ms") # 0
                 /\ StrOf(raw[i], "sender_name") # ""
                 /\ CarriesMedia(raw[i])) =>
                    \E j \in DOMAIN ret.value.messages :
                        LET m == ret.value.messages[j]
                        IN  /\ m.sender = decodeFacebookText(raw[i].sender_name)
                            /\ m.timestamp = raw[i].timestamp_ms
                            /\ m.content = MediaTags[FirstMedia(raw[i])]
                            /\ m.type = "media"
                            /\ m.metadata.mediaType = Some(MediaTypes[FirstMedia(raw[i])])

\* C20: in every conversation an adapter produces the participants are unique by
\* name: no two participant entries have the same name, also when the JSON file's
\* participants array lists a name twice.
C20_ParticipantsUnique ==
    Returned =>
        \A i, j \in DOMAIN ret.value.participants :
            ret.value.participants[i].name = ret.value.participants[j].name => i = j

\* the WhatsApp adapter returned
WhatsAppReturned == Returned /\ call = "parseWhatsAppFormat"

\* the indices of the lines of content that match the full message pattern
MessageLines(content) == {i \in DOMAIN content : content[i].kind = "wmsg"}

\* the text the lines from index j up to the next message or system line add to
\* a message in progress: each non-blank line after a newline, in input order
RECURSIVE Continuation(_, _)
Continuation(content, j) ==
    IF j > Len(content) \/ content[j].kind \in {"wmsg", "wsys"} THEN ""
    ELSE IF content[j].kind = "blank" THEN Continuation(content, j + 1)
    ELSE "\n" \o RawLine(content[j]) \o Continuation(content, j + 1)

\* C22: in the WhatsApp adapter, every non-blank line that matches neither the
\* message pattern nor the system pattern and arrives while a message is in
\* progress is appended to that message's content after a newline separator, in
\* input order, and starts no new message; so the message line
\* "2021-06-21, 4:23 a.m. - Tom: Hello" followed by the line "world" yields a
\* single message whose content is "Hello", newline, "world".
C22_ContinuationLines ==
    WhatsAppReturned =>
        /\ Len(ret.value.messages) <= Cardinality(MessageLines(file.content))
        /\ \A i \in MessageLines(file.content) :
            \E m \in DOMAIN ret.value.messages :
                /\ ret.value.messages[m].sender = file.content[i].sender
                /\ ret.value.messages[m].timestamp =
                        parseWhatsAppDateTime(file.content[i].day, file.content[i].hour,
                                              file.content[i].minute, file.content[i].period)
                /\ ret.value.messages[m].content =
                        normalizeWhatsAppContent(file.content[i].text).content
                            \o Continuation(file.content, i + 1)
        /\ file.content = <<WMsgLine(1, 4, 23, "a.m.", "Tom", "Hello"),
                            TextLine("world", FALSE)>> =>
                /\ Len(ret.value.messages) = 1
                /\ ret.value.messages[1].content = "Hello\nworld"

\* C22 witness: a message line was followed by two different continuation lines.
C22_Witness ==
    /\ WhatsAppReturned
    /\ Len(file.content) = 3
    /\ file.content[1].kind = "wmsg"
    /\ file.content[2].kind = "text" /\ file.content[3].kind = "text"
    /\ file.content[2] # file.content[3]
    /\ Len(ret.value.messages) = 1
    /\ ret.value.messages[1].content =
            "Hello\n" \o file.content[2].text \o "\n" \o file.content[3].text

\* the message the contract gives the message line at index i of content
ExpectedWhatsApp(content, i) ==
    [sender |-> content[i].sender,
     content |-> normalizeWhatsAppContent(content[i].text).content
                    \o Continuation(content, i + 1),
     timestamp |-> parseWhatsAppDateTime(content[i].day, content[i].hour,
                                         content[i].minute, content[i].period),
     type |-> normalizeWhatsAppContent(content[i].text).type]

\* the one-to-one assignments of the elements of S to the indices of seq
Assignments(S, seq) ==
    {f \in [S -> DOMAIN seq] : \A a, b \in S : f[a] = f[b] => a = b}

\* C24: in the WhatsApp adapter the in-progress message is emitted exactly once
\* (when the next message line arrives, when a system line arrives, or at end of
\* input); a system line emits no message of its own and clears the in-progress
\* message, so lines following a system line up to the next message line are
\* attached to no message, and the number of messages in the result equals the
\* number of input lines matching the full "date, time - Sender: Text" pattern.
C24_EmittedOnce ==
    WhatsAppReturned =>
        /\ Len(ret.value.messages) = Cardinality(MessageLines(file.content))
        /\ \E f \in Assignments(MessageLines(file.content), ret.value.messages) :
            \A i \in MessageLines(file.content) :
                /\ ret.value.messages[f[i]].sender = ExpectedWhatsApp(file.content, i).sender
                /\ ret.value.messages[f[i]].content = ExpectedWhatsApp(file.content, i).content
                /\ ret.value.messages[f[i]].timestamp
                        = ExpectedWhatsApp(file.content, i).timestamp
                /\ ret.value.messages[f[i]].type = ExpectedWhatsApp(file.content, i).type

\* C24 witness: a message line, then a system line, then a non-blank line that
\* no message took up.
C24_Witness ==
    /\ WhatsAppReturned
    /\ Len(file.content) = 3
    /\ file.content[1].kind = "wmsg"
    /\ file.content[2].kind = "wsys"
    /\ file.content[3].kind = "text"
    /\ Len(ret.value.messages) = 1
    /\ ret.value.messages[1].content = normalizeWhatsAppContent(file.content[1].text).content

\* the hour of the day and the calendar day of a Date
HourOf(ts) == (ts % 1440) \div 60
DayOf(ts) == ts \div 1440

\* the 24-hour clock hour the contract gives hour h of the 12-hour clock
ExpectedHour(h, period) ==
    IF h = 12 THEN (IF period = "a.m." THEN 0 ELSE 12)
    ELSE IF period = "p.m." THEN h + 12
    ELSE h

ClockTime(line) == line.hour \in 0..12 /\ line.minute \in 0..59

LineReturned == Returned /\ call = "parseLineFormat"

\* the date headers the loop sees before line i: those after the three header lines
HeadersBefore(content, i) == {j \in 4..(i - 1) : content[j].kind = "date"}

\* the message-shaped lines after the three header lines that are preceded by a
\* date header
DatedMessageLines(content) ==
    {i \in 4..Len(content) : content[i].kind = "lmsg" /\ HeadersBefore(content, i) # {}}

\* C23: in the Line adapter, a message-shaped line that appears before any
\* recognized date header is never emitted, and the number of messages in the
\* result equals the number of message-shaped lines (after the three header
\* lines) that are preceded by at least one recognized date header; date headers
\* and blank lines themselves produce no message.
C23_LineMessageCount ==
    LineReturned =>
        /\ Len(ret.value.messages) = Cardinality(DatedMessageLines(file.content))
        /\ \E f \in Assignments(DatedMessageLines(file.content), ret.value.messages) :
            \A i \in DatedMessageLines(file.content) :
                /\ ret.value.messages[f[i]].sender = file.content[i].sender
                /\ ret.value.messages[f[i]].content
                        = normalizeLineContent(file.content[i].text).content

\* C23 witness: a message line before the first date header and one after it;
\* only the second was emitted.
C23_Witness ==
    /\ LineReturned
    /\ Len(file.content) = 6
    /\ file.content[3].kind = "blank"
    /\ file.content[4].kind = "lmsg"
    /\ file.content[5].kind = "date"
    /\ file.content[6].kind = "lmsg"
    /\ file.content[4].sender # file.content[6].sender
    /\ Len(ret.value.messages) = 1
    /\ ret.value.messages[1].sender = file.content[6].sender

\* the day of the most recent date header before line i
GoverningDay(content, i) ==
    content[CHOOSE j \in HeadersBefore(content, i) :
                \A k \in HeadersBefore(content, i) : k <= j].day

\* C26: in the Line adapter, each emitted message's timestamp is the date of the
\* most recent date header that precedes its line in the input, combined with
\* the HH:MM of the message line; a date header governs all following message
\* lines until the next date header replaces it and is never applied to earlier
\* lines.
C26_GoverningDateHeader ==
    LineReturned =>
        \E f \in Assignments(DatedMessageLines(file.content), ret.value.messages) :
            \A i \in DatedMessageLines(file.content) :
                /\ ret.value.messages[f[i]].sender = file.content[i].sender
                /\ ret.value.messages[f[i]].timestamp
                        = GoverningDay(file.content, i) * 1440
                            + file.content[i].hh * 60 + file.content[i].mm

\* C26 witness: two date headers of different days, then a message line, which
\* got the day of the second.
C26_Witness ==
    /\ LineReturned
    /\ Len(file.content) = 6
    /\ file.content[4].kind = "date"
    /\ file.content[5].kind = "date"
    /\ file.content[4].day # file.content[5].day
    /\ file.content[6].kind = "lmsg"
    /\ Len(ret.value.messages) = 1
    /\ DayOf(ret.value.messages[1].timestamp) = file.content[5].day

----------------------------------------------------------------------------
(* Specification SpecRouter: parseConversations on a batch of files *)

LineHeader == <<TitleLine(FALSE, "Tom"), TextLine("Saved on: 01/03/2024, 10:00", FALSE),
                BlankLine>>

FbDoc(messages) ==
    [participants |-> <<[name |-> "Alice"], [name |-> "Bob"]>>, messages |-> messages]
IgDoc(messages) == [participants |-> <<"alice_ig", "Bob">>, messages |-> messages]
JsonFile(name, doc) == File(name, <<JsonLine("{", Some(doc))>>)

FileFacebook == JsonFile(NameFbJson, FbDoc(<<FbText("Bob", "hey", 25), FbText("Alice", "hello", 15)>>))
FileInstagram == JsonFile(NameIgJson, IgDoc(<<IgText("alice_ig", "hi", 20), IgText("Bob", "yo", 10)>>))
FileLine == File(NameLineTxt, LineHeader \o <<DateLine(1), LMsgLine(23, 37, "Tom", "Hello!")>>)
FileLineNoExt == File(NameBare, LineHeader \o <<DateLine(1), LMsgLine(9, 5, "Ann", "[Sticker]")>>)
FileWhatsApp == File(NameWaTxt, <<WMsgLine(1, 4, 23, "a.m.", "Tom", "Hello"), TextLine("world", FALSE)>>)
FileMalformed == File(NameFbJson, <<JsonLine("{", Null)>>)
FileNoMessages == JsonFile(NameFbJson, [participants |-> <<"Bob">>])
FileOtherSchema == JsonFile(NameIgJson, [messages |-> <<[from |-> "Eve", body |-> "other schema"]>>])
FileUnknown == File(NameBare, <<TextLine("hello", FALSE)>>)
FileAllFiltered == JsonFile(NameFbJson, FbDoc(<<[sender_name |-> "Bob", timestamp_ms |-> 45]>>))
FileLineNoMessages == File(NameLineTxt, LineHeader \o <<DateLine(1)>>)

RouterFiles ==
    { FileFacebook, FileInstagram, FileLine, FileLineNoExt, FileWhatsApp, FileMalformed,
      FileNoMessages, FileOtherSchema, FileUnknown, FileAllFiltered, FileLineNoMessages }

InitRouter ==
    /\ files \in SeqsUpTo(RouterFiles, MaxFiles)
    /\ pos = 1
    /\ results = <<>>
    /\ errors = <<>>
    /\ file = Null /\ call = "none" /\ ret = Null
    /\ parsedConversations = <<>> /\ mappings = <<>> /\ heap = <<>>
    /\ conversations = <<>> /\ merges = 0 /\ mappingPairs = <<>>

RouterUnchanged ==
    UNCHANGED <<file, parsedConversations, mappings, heap, conversations, merges,
                mappingPairs>>

\* one iteration of the for loop on the accumulators acc = [results, errors]:
\* try { results.push(await parseConversation(file)) } catch { errors.push({...}) }
routeStepSwallow(acc, f) ==
    LET r == parseConversation(f)
    IN  IF r.ok THEN [acc EXCEPT !.results = Append(@, r.value)] ELSE acc
routeStep(acc, f) ==
    LET r == parseConversation(f)
    IN  IF r.ok THEN [acc EXCEPT !.results = Append(@, r.value)]
        ELSE [acc EXCEPT !.errors =
                Append(@, [fileName |-> Concat(f.name), error |-> r.error])]

RECURSIVE parseConversationsLoop(_, _, _)
parseConversationsLoop(fs, i, acc) ==
    IF i > Len(fs) THEN acc ELSE parseConversationsLoop(fs, i + 1, routeStep(acc, fs[i]))

\* parseConversations(files), run to completion
parseConversations(fs) ==
    LET acc == parseConversationsLoop(fs, 1, [results |-> <<>>, errors |-> <<>>])
    IN  [conversations |-> acc.results, errors |-> acc.errors]

ParseNextFile ==
    /\ call = "none"
    /\ pos <= Len(files)
    /\ LET next == routeStep([results |-> results, errors |-> errors], files[pos])
       IN  /\ results' = next.results
           /\ errors' = next.errors
    /\ pos' = pos + 1
    /\ UNCHANGED <<files, call, ret>>
    /\ RouterUnchanged

\* return { conversations: results, errors }
ReturnBatch ==
    /\ call = "none"
    /\ pos > Len(files)
    /\ call' = "parseConversations"
    /\ ret' = Return([conversations |-> results, errors |-> errors])
    /\ UNCHANGED <<files, pos, results, errors>>
    /\ RouterUnchanged

NextRouter == ParseNextFile \/ ReturnBatch

SpecRouter == InitRouter /\ [][NextRouter]_vars

----------------------------------------------------------------------------
(* Claims about the router (SpecRouter) *)

BatchReturned == call = "parseConversations"

\* the files of the batch that parse / that fail, in batch order
OkFiles == FilterSeq(files, {k \in DOMAIN files : parseConversation(files[k]).ok})
FailedFiles == FilterSeq(files, {k \in DOMAIN files : ~parseConversation(files[k]).ok})

\* C3: each file of a batch contributes exactly one Conversation or exactly one
\* {fileName, error} entry, never both; a failure on one file does not stop the
\* remaining files from being processed; so |conversations| + |errors| = |files|,
\* and a non-empty batch with zero conversations has a non-empty errors array.
C3_OneEntryPerFile ==
    /\ Len(results) + Len(errors) = pos - 1
    /\ BatchReturned =>
        LET out == ret.value
        IN  /\ Len(out.conversations) + Len(out.errors) = Len(files)
            /\ Len(out.conversations) = Len(OkFiles)
            /\ \A k \in DOMAIN OkFiles :
                    out.conversations[k].rawFileName = Concat(OkFiles[k].name)
            /\ Len(out.errors) = Len(FailedFiles)
            /\ \A k \in DOMAIN FailedFiles :
                    out.errors[k].fileName = Concat(FailedFiles[k].name)
            /\ (Len(files) > 0 /\ Len(out.conversations) = 0) => Len(out.errors) > 0

\* C3 witness: a batch whose first file failed and whose second file parsed.
C3_Witness ==
    /\ BatchReturned
    /\ Len(files) = 2
    /\ ~parseConversation(files[1]).ok
    /\ parseConversation(files[2]).ok
    /\ Len(ret.value.conversations) = 1
    /\ Len(ret.value.errors) = 1

\* Well-formed files of the four supported formats (the wire contracts), named
\* with the extension of their format.
WellFormedFacebook(f) ==
    /\ ExtensionIs(f.name, DotJson)
    /\ JSONparse(f.content) # Null
    /\ LET d == JSONparse(f.content)[1]
       IN  /\ Has(d, "participants") /\ Has(d, "messages") /\ Len(d.messages) > 0
           /\ \A i \in DOMAIN d.messages :
                /\ Has(d.messages[i], "sender_name") /\ Has(d.messages[i], "timestamp_ms")
                /\ ~Has(d.messages[i], "senderName")
           /\ \A i \in DOMAIN d.participants : Has(d.participants[i], "name")
WellFormedInstagram(f) ==
    /\ ExtensionIs(f.name, DotJson)
    /\ JSONparse(f.content) # Null
    /\ LET d == JSONparse(f.content)[1]
       IN  /\ Has(d, "participants") /\ Has(d, "messages") /\ Len(d.messages) > 0
           /\ \A i \in DOMAIN d.messages :
                /\ Has(d.messages[i], "senderName") /\ Has(d.messages[i], "timestamp")
                /\ ~Has(d.messages[i], "sender_name")
WellFormedLine(f) ==
    /\ ExtensionIs(f.name, DotTxt)
    /\ Len(f.content) >= 3
    /\ f.content[1].kind = "title"
    /\ \A i \in DOMAIN f.content : i > 3 => f.content[i].kind \in {"date", "lmsg", "blank"}
WellFormedWhatsApp(f) ==
    /\ ExtensionIs(f.name, DotTxt)
    /\ f.content[1].kind = "wmsg"
    /\ \A i \in DOMAIN f.content : f.content[i].kind \in {"wmsg", "wsys", "text"}

WellFormedAs(f, platform) ==
    CASE platform = "facebook" -> WellFormedFacebook(f)
      [] platform = "instagram" -> WellFormedInstagram(f)
      [] platform = "line" -> WellFormedLine(f)
      [] platform = "whatsapp" -> WellFormedWhatsApp(f)

\* the detector's tag for a platform's files
FormatTag(platform) ==
    IF platform \in {"facebook", "instagram"} THEN "json" ELSE platform

\* C10: every well-formed file of each of the four supported formats is given its
\* format's tag (json, line or whatsapp) by the detector and dispatched to the
\* matching adapter, so the step that processes it adds a Conversation whose
\* source is that platform and adds no error entry.
C10_WellFormedFilesParsed ==
    [][pos' = pos + 1 =>
        \A platform \in {"facebook", "instagram", "line", "whatsapp"} :
            WellFormedAs(files[pos], platform) =>
                /\ detectFormat(files[pos]) = FormatTag(platform)
                /\ Len(results') = Len(results) + 1
                /\ results'[Len(results')].source = platform
                /\ results'[Len(results')].rawFileName = Concat(files[pos].name)
                /\ errors' = errors]_vars

\* C13: a file that its adapter parses without throwing but that yields zero
\* usable messages or zero participants contributes an error entry
\* (EmptyResultSet), not a Conversation: every Conversation of the batch result
\* has at least one message and one participant, and each file still contributes
\* one entry.
C13_EmptyResultIsError ==
    BatchReturned =>
        /\ Len(ret.value.conversations) + Len(ret.value.errors) = Len(files)
        /\ \A i \in DOMAIN ret.value.conversations :
                /\ Len(ret.value.conversations[i].messages) > 0
                /\ Len(ret.value.conversations[i].participants) > 0

----------------------------------------------------------------------------
(* Conversation merger: utils/conversationMerger.js *)

\* `${name}|||${conversationId}`
Key(name, conversationId) == name \o "|||" \o conversationId

\* `merged-${idx}`, idx the 0-based index of the mapping
canonicalIdOf(idx) == "merged-" \o ToString(idx)

identityOfPerson2Name(mapping, idx) ==
    [canonicalId |-> canonicalIdOf(idx),
     canonicalName |-> mapping.person2[1].name,
     alternateNames |-> <<mapping.person1[1].name, mapping.person2[1].name>>,
     platforms |-> <<mapping.person1[1].platform, mapping.person2[1].platform>>]

\* the identity object registered for the mapping at index idx
identityOf(mapping, idx) ==
    [canonicalId |-> canonicalIdOf(idx),
     canonicalName |-> mapping.person1[1].name,
     alternateNames |-> <<mapping.person1[1].name, mapping.person2[1].name>>,
     platforms |-> <<mapping.person1[1].platform, mapping.person2[1].platform>>]

\* the body of mappings.forEach((mapping, idx) => ...)
registerMappingTransitive(identityMap, mapping, idx) ==
    IF mapping.person1 = Null \/ mapping.person2 = Null THEN identityMap
    ELSE LET key1 == Key(mapping.person1[1].name, mapping.person1[1].conversationId)
             key2 == Key(mapping.person2[1].name, mapping.person2[1].conversationId)
             known == IF key1 \in DOMAIN identityMap THEN identityMap[key1]
                      ELSE IF key2 \in DOMAIN identityMap THEN identityMap[key2]
                      ELSE identityOf(mapping, idx)
         IN  MapSet(MapSet(identityMap, key1, known), key2, known)
registerMapping(identityMap, mapping, idx) ==
    IF mapping.person1 = Null \/ mapping.person2 = Null THEN identityMap
    ELSE LET key1 == Key(mapping.person1[1].name, mapping.person1[1].conversationId)
             key2 == Key(mapping.person2[1].name, mapping.person2[1].conversationId)
         IN  MapSet(MapSet(identityMap, key1, identityOf(mapping, idx)),
                    key2, identityOf(mapping, idx))

RECURSIVE identityMapLoop(_, _, _)
identityMapLoop(ms, i, identityMap) ==
    IF i > Len(ms) THEN identityMap
    ELSE identityMapLoop(ms, i + 1, registerMapping(identityMap, ms[i], i - 1))

createIdentityMap(ms) == identityMapLoop(ms, 1, <<>>)

\* the group key of one conversation: the canonicalId of its first mapped
\* participant, else its own conversationId
groupKeyOwnIdOnly(conv, identityMap) == conv.conversationId
groupKeyLastHit(conv, identityMap) ==
    LET hits == {i \in DOMAIN conv.participants :
                    Key(conv.participants[i].name, conv.conversationId) \in DOMAIN identityMap}
    IN  IF hits = {} THEN conv.conversationId
        ELSE identityMap[Key(conv.participants[CHOOSE i \in hits : \A j \in hits : j <= i].name,
                             conv.conversationId)].canonicalId
groupKeyOf(conv, identityMap) ==
    LET hits == {i \in DOMAIN conv.participants :
                    Key(conv.participants[i].name, conv.conversationId) \in DOMAIN identityMap}
    IN  IF hits = {} THEN conv.conversationId
        ELSE identityMap[Key(conv.participants[Min(hits)].name,
                             conv.conversationId)].canonicalId

\* groups is a plain object: keys in insertion order, vals the arrays
RECURSIVE groupLoop(_, _, _, _)
groupLoop(convs, i, identityMap, groups) ==
    IF i > Len(convs) THEN groups
    ELSE LET k == groupKeyOf(convs[i], identityMap)
             g == IF k \in DOMAIN groups.vals
                  THEN [groups EXCEPT !.vals[k] = Append(@, convs[i])]
                  ELSE [keys |-> Append(groups.keys, k),
                        vals |-> MapSet(groups.vals, k, <<convs[i]>>)]
         IN  groupLoop(convs, i + 1, identityMap, g)

groupConversationsByIdentity(convs, identityMap) ==
    groupLoop(convs, 1, identityMap, [keys |-> <<>>, vals |-> <<>>])

\* the number an integer-like property key denotes, -1 for any other key
intKeyValue(k) ==
    IF \E n \in 0..MaxIntKey : ToString(n) = k
    THEN CHOOSE n \in 0..MaxIntKey : ToString(n) = k
    ELSE -1

\* Object.values(groups): integer-like keys first, ascending, then the other keys
\* in insertion order
objectValues(groups) ==
    LET ints == FilterSeq(groups.keys,
                    {i \in DOMAIN groups.keys : intKeyValue(groups.keys[i]) >= 0})
        rest == FilterSeq(groups.keys,
                    {i \in DOMAIN groups.keys : intKeyValue(groups.keys[i]) < 0})
        order == SortByKey(ints, [k \in Range(ints) |-> intKeyValue(k)]) \o rest
    IN  [i \in DOMAIN order |-> groups.vals[order[i]]]

\* a.dateRange.start?.getTime() || 0
startTime(conv) == IF conv.dateRange.start = Null THEN 0 ELSE conv.dateRange.start[1]

RECURSIVE Flatten(_)
Flatten(ss) == IF Len(ss) = 0 THEN <<>> ELSE ss[1] \o Flatten(Tail(ss))

\* msg.originalSender = msg.sender; msg.sender = identity.canonicalName
rewriteSenderKeepNoOriginal(msg, identity) == MapSet(msg, "sender", identity.canonicalName)
rewriteSenderAndContent(msg, identity) ==
    MapSet(MapSet(MapSet(msg, "originalSender", msg.sender), "sender", identity.canonicalName),
           "content", identity.canonicalName \o ": " \o msg.content)
rewriteSender(msg, identity) ==
    MapSet(MapSet(msg, "originalSender", msg.sender), "sender", identity.canonicalName)

\* allMessages.forEach(msg => ...): the owning conversation is the first of
\* sortedConvs whose messages array holds this very object
RECURSIVE normalizeSenders(_, _, _, _)
normalizeSenders(ids, sortedConvs, identityMap, h) ==
    IF Len(ids) = 0 THEN h
    ELSE LET id == ids[1]
             owners == {i \in DOMAIN sortedConvs : id \in Range(sortedConvs[i].messages)}
             key == Key(h[id].sender, sortedConvs[Min(owners)].conversationId)
             h1 == IF owners # {} /\ key \in DOMAIN identityMap
                   THEN [h EXCEPT ![id] = rewriteSender(@, identityMap[key])]
                   ELSE h
         IN  normalizeSenders(Tail(ids), sortedConvs, identityMap, h1)

\* participantMap: an insertion-ordered Map keyed by canonical name
canonicalParticipant(p, conv, identityMap) ==
    LET key == Key(p.name, conv.conversationId)
    IN  IF key \in DOMAIN identityMap
        THEN [name |-> identityMap[key].canonicalName,
              platform |-> "multiple",
              rawIdentifier |-> p.rawIdentifier,
              alternateNames |-> identityMap[key].alternateNames,
              platforms |-> identityMap[key].platforms]
        ELSE [name |-> p.name,
              platform |-> p.platform,
              rawIdentifier |-> p.rawIdentifier,
              alternateNames |-> <<p.name>>,
              platforms |-> <<p.platform>>]

RECURSIVE participantLoop(_, _, _)
\* entries: the (conversation, participant) pairs in forEach order
participantLoop(entries, identityMap, acc) ==
    IF Len(entries) = 0 THEN acc
    ELSE LET e == canonicalParticipant(entries[1].p, entries[1].conv, identityMap)
         IN  participantLoop(Tail(entries), identityMap,
                IF \E i \in DOMAIN acc : acc[i].name = e.name THEN acc ELSE Append(acc, e))

getCanonicalParticipants(convs, identityMap) ==
    participantLoop(
        Flatten([i \in DOMAIN convs |->
            [j \in DOMAIN convs[i].participants |->
                [conv |-> convs[i], p |-> convs[i].participants[j]]]]),
        identityMap, <<>>)

RECURSIVE Unique(_)
\* [...new Set(array)]
Unique(s) ==
    IF Len(s) = 0 THEN <<>>
    ELSE LET before == Unique(SubSeq(s, 1, Len(s) - 1))
         IN  SetAdd(before, s[Len(s)])

createMergedTitle(participants, sources) ==
    Join([i \in DOMAIN participants |-> participants[i].name], " & ")
        \o " (" \o Join(sources, " + ") \o ")"

\* [...conversations].sort by start date
sortConversationsDropped(group) == group
sortConversations(group) == SortByKey(group, [c \in Range(group) |-> startTime(c)])

\* allMessages.sort((a, b) => a.timestamp - b.timestamp)
sortAllMessagesDropped(collected, h) == collected
sortAllMessages(collected, h) ==
    SortByKey(collected, [id \in Range(collected) |-> h[id].timestamp])

\* mergeConversationGroup(conversations, identityMap) on heap h: the merged
\* conversation and the heap after the in-place sender rewrite
mergeConversationGroup(group, identityMap, h) ==
    LET sortedConvs == sortConversations(group)
        collected == Flatten([i \in DOMAIN sortedConvs |-> sortedConvs[i].messages])
        allMessages == sortAllMessages(collected, h)
        h1 == normalizeSenders(allMessages, sortedConvs, identityMap, h)
        canonicalParticipants == getCanonicalParticipants(sortedConvs, identityMap)
        uniqueSources == Unique([i \in DOMAIN sortedConvs |-> sortedConvs[i].source])
    IN  [heap |-> h1,
         conversation |->
            [source |-> IF Len(uniqueSources) = 1 THEN uniqueSources[1] ELSE "merged",
             conversationId |-> "merged-" \o
                Join([i \in DOMAIN sortedConvs |-> sortedConvs[i].conversationId], "-"),
             title |-> createMergedTitle(canonicalParticipants, uniqueSources),
             participants |-> canonicalParticipants,
             messages |-> allMessages,
             dateRange |->
                [start |-> IF Len(allMessages) = 0 THEN Null
                           ELSE Some(h1[allMessages[1]].date),
                 end |-> IF Len(allMessages) = 0 THEN Null
                         ELSE Some(h1[allMessages[Len(allMessages)]].date)],
             totalMessages |-> Len(allMessages),
             isMerged |-> TRUE,
             sourceConversations |-> [i \in DOMAIN sortedConvs |->
                [title |-> sortedConvs[i].title,
                 source |-> sortedConvs[i].source,
                 messageCount |-> Len(sortedConvs[i].messages),
                 dateRange |-> sortedConvs[i].dateRange]]]]

\* Object.values(groupedConversations).map(group => ...), threading the heap
RECURSIVE mergeGroupsNoPassThrough(_, _, _, _)
mergeGroupsNoPassThrough(groups, identityMap, h, out) ==
    IF Len(groups) = 0 THEN [conversations |-> out, heap |-> h]
    ELSE LET m == mergeConversationGroup(groups[1], identityMap, h)
         IN  mergeGroupsNoPassThrough(Tail(groups), identityMap, m.heap,
                                      Append(out, m.conversation))
RECURSIVE mergeGroups(_, _, _, _)
mergeGroups(groups, identityMap, h, out) ==
    IF Len(groups) = 0 THEN [conversations |-> out, heap |-> h]
    ELSE IF Len(groups[1]) = 1
    THEN mergeGroups(Tail(groups), identityMap, h, Append(out, groups[1][1]))
    ELSE LET m == mergeConversationGroup(groups[1], identityMap, h)
         IN  mergeGroups(Tail(groups), identityMap, m.heap, Append(out, m.conversation))

\* mergeConversations(conversations, mappings) on heap h
mergeConversationsAlwaysGroup(convs, ms, h) ==
    LET identityMap == createIdentityMap(ms)
    IN  mergeGroups(objectValues(groupConversationsByIdentity(convs, identityMap)),
                    identityMap, h, <<>>)
mergeConversations(convs, ms, h) ==
    IF Len(ms) = 0 THEN [conversations |-> convs, heap |-> h]
    ELSE LET identityMap == createIdentityMap(ms)
         IN  mergeGroups(objectValues(groupConversationsByIdentity(convs, identityMap)),
                         identityMap, h, <<>>)

\* the App holds the adapters' conversations with their message objects: the
\* j-th message of the k-th conversation is the object <<k, j>>
allocate(convs) ==
    [conversations |-> [k \in DOMAIN convs |->
        [convs[k] EXCEPT !.messages = [j \in DOMAIN convs[k].messages |-> <<k, j>>]]],
     heap |-> [id \in UNION {{<<k, j>> : j \in DOMAIN convs[k].messages} : k \in DOMAIN convs}
                |-> convs[id[1]].messages[id[2]]]]

IsMerged(conv) == Has(conv, "isMerged") /\ conv.isMerged

----------------------------------------------------------------------------
(* Specification SpecMerge: mergeConversations on adapter output *)

\* the uploaded files the merged conversations come from
MergeFileFacebook ==
    JsonFile(NameFbJson, FbDoc(<<FbText("Alice", "hello", 15), FbText("Bob", "hey", 25),
                                 FbText("Alice", "bye", 35)>>))
MergeFileInstagram ==
    JsonFile(NameIgJson, IgDoc(<<IgText("alice_ig", "hi", 20), IgText("Bob", "yo", 30)>>))
MergeFileThread7 ==
    JsonFile(NameIgJson,
        [participants |-> <<"Bob", "alice_ig">>, threadName |-> "7",
         messages |-> <<IgText("alice_ig", "late", 40), IgText("Bob", "early", 10)>>])
MergeFiles == {MergeFileFacebook, MergeFileInstagram, MergeFileThread7}

Person(name, platform, conversationId, conversationTitle) ==
    [name |-> name, platform |-> platform, conversationId |-> conversationId,
     conversationTitle |-> conversationTitle]

AliceFb == Person("Alice", "facebook", "fb-json", "Alice, Bob")
BobFb == Person("Bob", "facebook", "fb-json", "Alice, Bob")
AliceIg == Person("alice_ig", "instagram", "ig-json", "alice_ig, Bob")
BobIg == Person("Bob", "instagram", "ig-json", "alice_ig, Bob")
AliceT7 == Person("alice_ig", "instagram", "7", "7")

Mapping(p1, p2) == [person1 |-> p1, person2 |-> p2]

MappingPool ==
    { Mapping(Some(AliceIg), Some(AliceFb)),
      Mapping(Some(AliceFb), Some(AliceT7)),
      Mapping(Some(AliceT7), Some(BobIg)),
      Mapping(Some(AliceIg), Null),
      Mapping(Null, Some(AliceFb)) }

InitMerge ==
    /\ files \in SeqsUpTo(MergeFiles, MaxConvs)
    /\ parsedConversations = allocate(parseConversations(files).conversations).conversations
    /\ heap = allocate(parseConversations(files).conversations).heap
    /\ mappings \in SeqsUpTo(MappingPool, MaxMappings)
    /\ conversations = <<>>
    /\ merges = 0
    /\ mappingPairs = <<>>
    /\ pos = 0 /\ results = <<>> /\ errors = <<>>
    /\ file = Null /\ call = "none" /\ ret = Null

MergeUnchanged == UNCHANGED <<file, ret, files, pos, results, errors, mappingPairs>>

\* handleIdentityMappingComplete(mappings)
MappingComplete ==
    /\ merges < MaxMerges
    /\ call \in {"none", "mergeConversations"}
    /\ LET m == mergeConversations(parsedConversations, mappings, heap)
       IN  /\ conversations' = m.conversations
           /\ heap' = m.heap
    /\ merges' = merges + 1
    /\ call' = "mergeConversations"
    /\ UNCHANGED <<parsedConversations, mappings>>
    /\ MergeUnchanged

\* handleIdentityMappingSkip()
MappingSkip ==
    /\ call = "none"
    /\ conversations' = parsedConversations
    /\ call' = "skip"
    /\ UNCHANGED <<parsedConversations, mappings, heap, merges>>
    /\ MergeUnchanged

NextMerge == MappingComplete \/ MappingSkip

SpecMerge == InitMerge /\ [][NextMerge]_vars

----------------------------------------------------------------------------
(* Claims about the merger (SpecMerge) *)

Merged == call = "mergeConversations"
MergeStep == merges' = merges + 1

Incomplete(mapping) == mapping.person1 = Null \/ mapping.person2 = Null

\* no message object carries originalSender: no sender was rewritten
NoSenderRewritten == \A id \in DOMAIN heap : ~Has(heap[id], "originalSender")

\* C1: with an empty (or absent) mapping list mergeConversations returns the
\* input list unchanged: the same conversations in the same order with the same
\* messages, senders, participants and conversationIds, none marked isMerged.
C1_EmptyMappingsIdentity ==
    (Merged /\ Len(mappings) = 0) =>
        /\ conversations = parsedConversations
        /\ NoSenderRewritten
        /\ \A i \in DOMAIN conversations : ~IsMerged(conversations[i])

\* C1 witness: an empty mapping list was applied to two conversations that share
\* a conversationId.
C1_Witness ==
    /\ Merged /\ Len(mappings) = 0
    /\ Len(parsedConversations) = 2
    /\ parsedConversations[1].conversationId = parsedConversations[2].conversationId
    /\ conversations = parsedConversations

\* C2: with a non-empty mapping list in which every mapping lacks person1 or
\* person2, mergeConversations is the identity on the conversation list (same
\* conversations, same order, same messages, participants and ids, nothing
\* merged), also when two conversations share a conversationId or a
\* conversationId is numeric-looking.
C2_IncompleteMappingsIdentity ==
    (Merged /\ Len(mappings) > 0 /\ \A i \in DOMAIN mappings : Incomplete(mappings[i])) =>
        /\ conversations = parsedConversations
        /\ NoSenderRewritten
        /\ \A i \in DOMAIN conversations : ~IsMerged(conversations[i])

\* a chain of two complete mappings: a <-> b and b <-> c, over three
\* conversations x, y, z of the input with pairwise different conversationIds
PersonKey(p) == Key(p.name, p.conversationId)
InConversation(p, conv) ==
    /\ conv.conversationId = p.conversationId
    /\ \E i \in DOMAIN conv.participants : conv.participants[i].name = p.name
TwoComplete ==
    /\ Len(mappings) = 2
    /\ ~Incomplete(mappings[1]) /\ ~Incomplete(mappings[2])
Linked(a, b, c) ==
    /\ \E i, j \in {1, 2} :
        /\ i # j
        /\ {mappings[i].person1[1], mappings[i].person2[1]} = {a, b}
        /\ {mappings[j].person1[1], mappings[j].person2[1]} = {b, c}
    /\ Cardinality({a.conversationId, b.conversationId, c.conversationId}) = 3
Located(a, b, c, x, y, z) ==
    /\ InConversation(a, parsedConversations[x])
    /\ InConversation(b, parsedConversations[y])
    /\ InConversation(c, parsedConversations[z])
Chain(a, b, c, x, y, z) ==
    /\ TwoComplete
    /\ Linked(a, b, c)
    /\ {x, y, z} \subseteq DOMAIN parsedConversations
    /\ Located(a, b, c, x, y, z)

Persons == {AliceFb, BobFb, AliceIg, BobIg, AliceT7}

\* the output conversations that hold a message object of input conversation k
OutputsOf(k) ==
    {o \in DOMAIN conversations :
        \E id \in Range(conversations[o].messages) : id[1] = k}

\* C6: grouping is not transitive: with mappings a <-> b and b <-> c and no direct
\* a <-> c mapping, a and c resolve to different canonicalIds and x, y, z are never
\* merged into one group: the output keeps x and z in two distinct conversations.
C6_NotTransitive ==
    (Merged /\ TwoComplete) =>
        \A a, b, c \in Persons : Linked(a, b, c) =>
            /\ createIdentityMap(mappings)[PersonKey(a)].canonicalId
                    # createIdentityMap(mappings)[PersonKey(c)].canonicalId
            /\ \A x, y, z \in DOMAIN parsedConversations :
                    Located(a, b, c, x, y, z) =>
                        /\ OutputsOf(x) \cap OutputsOf(z) = {}
                        /\ Cardinality(OutputsOf(x) \cup OutputsOf(y) \cup OutputsOf(z)) = 2

\* C6 witness: the chain alice_ig@ig <-> Alice@fb, Alice@fb <-> alice_ig@7 was merged
\* over the three conversations ig-json, fb-json and 7.
C6_Witness ==
    /\ Merged
    /\ Len(parsedConversations) = 3
    /\ \E x, y, z \in DOMAIN parsedConversations :
            Chain(AliceIg, AliceFb, AliceT7, x, y, z)
    /\ \E o \in DOMAIN conversations : IsMerged(conversations[o])

\* C7: after mergeConversations every message of a merged group whose (sender,
\* owning conversation's conversationId) is a key of the identity map has its
\* sender set to that identity's canonical name and carries originalSender equal
\* to the sender it had before the merge; a message whose sender is not mapped
\* keeps its sender and gets no originalSender.
C7_SenderRewrite ==
    [][MergeStep =>
        \A o \in DOMAIN conversations' : IsMerged(conversations'[o]) =>
            \A id \in Range(conversations'[o].messages) :
                LET key == Key(heap[id].sender, parsedConversations[id[1]].conversationId)
                    identityMap == createIdentityMap(mappings)
                IN  IF key \in DOMAIN identityMap
                    THEN /\ heap'[id].sender = identityMap[key].canonicalName
                         /\ Has(heap'[id], "originalSender")
                         /\ heap'[id].originalSender = heap[id].sender
                    ELSE heap'[id] = heap[id]]_vars

\* C7 witness: a merged conversation holds a message whose sender was rewritten to
\* another name and a message that was left alone.
C7_Witness ==
    /\ Merged /\ merges = 1
    /\ \E o \in DOMAIN conversations :
        /\ IsMerged(conversations[o])
        /\ \E id \in Range(conversations[o].messages) :
                /\ Has(heap[id], "originalSender")
                /\ heap[id].originalSender # heap[id].sender
        /\ \E id \in Range(conversations[o].messages) : ~Has(heap[id], "originalSender")

HasComplete == \E i \in DOMAIN mappings : ~Incomplete(mappings[i])

\* the participants of conv that are keys of identityMap
MappedParticipants(conv, identityMap) ==
    {i \in DOMAIN conv.participants :
        Key(conv.participants[i].name, conv.conversationId) \in DOMAIN identityMap}

\* the identity of participant i of conv
IdentityAt(conv, identityMap, i) ==
    identityMap[Key(conv.participants[i].name, conv.conversationId)]

\* the group key the contract gives conv
ExpectedKey(conv, identityMap) ==
    LET mapped == MappedParticipants(conv, identityMap)
    IN  IF mapped = {} THEN conv.conversationId
        ELSE IdentityAt(conv, identityMap,
                        CHOOSE i \in mapped : \A j \in mapped : i <= j).canonicalId

\* the identity map of the current mappings
IdentityMaps == {createIdentityMap(mappings)}

\* the contract's group key of every input conversation
ExpectedKeys(identityMap) ==
    [k \in DOMAIN parsedConversations |-> ExpectedKey(parsedConversations[k], identityMap)]

\* C14: with at least one complete mapping, a conversation's group key is the
\* canonicalId of the first of its participants (in participant order) that is
\* mapped, even when a later participant maps to another canonicalId, and its own
\* conversationId when none is mapped; conversations are grouped exactly by equal
\* group key: two inputs end in the same output conversation iff their keys are
\* equal.
C14_GroupKeyFirstHit ==
    (Merged /\ HasComplete) =>
        \A identityMap \in IdentityMaps :
            \A keys \in {ExpectedKeys(identityMap)} :
                \A x, y \in DOMAIN parsedConversations :
                    /\ Cardinality(OutputsOf(x)) = 1
                    /\ (OutputsOf(x) = OutputsOf(y)) <=> (keys[x] = keys[y])

\* C14 witness: a conversation whose first and second participant map to
\* different canonicalIds was grouped with another conversation.
C14_Witness ==
    /\ Merged /\ HasComplete
    /\ \E identityMap \in IdentityMaps :
        \E x, y \in DOMAIN parsedConversations :
            /\ x # y
            /\ MappedParticipants(parsedConversations[x], identityMap) = {1, 2}
            /\ IdentityAt(parsedConversations[x], identityMap, 1).canonicalId
                    # IdentityAt(parsedConversations[x], identityMap, 2).canonicalId
            /\ OutputsOf(x) = OutputsOf(y)

\* the input conversations of the group behind output conversation o: the inputs
\* whose group key equals that of an input with a message object in o
Members(o, keys) ==
    {k \in DOMAIN parsedConversations :
        \E k0 \in DOMAIN parsedConversations :
            keys[k] = keys[k0] /\ o \in OutputsOf(k0)}

\* the member sets of all output conversations
MemberSets ==
    {[o \in DOMAIN conversations |-> Members(o, keys)] :
        keys \in {ExpectedKeys(identityMap) : identityMap \in IdentityMaps}}

\* the message objects of a set of input conversations
MessagesOf(S) == {id \in DOMAIN heap : id[1] \in S}

\* C15: for every group with more than one member the merged conversation's
\* messages are exactly the messages of all member conversations, each once (as
\* many as the members' message counts add up to, none lost, none twice),
\* ordered non-decreasing by timestamp, also when the members' time ranges
\* interleave.
C15_MergedMessages ==
    Merged =>
        \A members \in MemberSets :
            \A o \in DOMAIN conversations : IsMerged(conversations[o]) =>
                \A ms \in {conversations[o].messages} :
                    \A all \in {MessagesOf(members[o])} :
                        /\ Cardinality(members[o]) > 1
                        /\ Range(ms) = all
                        /\ Len(ms) = Cardinality(all)
                        /\ \A i, j \in DOMAIN ms :
                                i < j => heap[ms[i]].timestamp <= heap[ms[j]].timestamp

\* C15 witness: a merged conversation in which the messages of two members
\* alternate in time.
C15_Witness ==
    /\ Merged
    /\ \E o \in DOMAIN conversations :
        /\ IsMerged(conversations[o])
        /\ \E i \in DOMAIN conversations[o].messages :
            /\ i + 2 \in DOMAIN conversations[o].messages
            /\ conversations[o].messages[i][1] # conversations[o].messages[i + 1][1]
            /\ conversations[o].messages[i][1] = conversations[o].messages[i + 2][1]
            /\ heap[conversations[o].messages[i]].timestamp
                    < heap[conversations[o].messages[i + 1]].timestamp

\* the canonical name of participant i of conv
CanonicalNameAt(conv, identityMap, i) ==
    IF i \in MappedParticipants(conv, identityMap)
    THEN IdentityAt(conv, identityMap, i).canonicalName
    ELSE conv.participants[i].name

\* C16: a merged conversation's participants hold one entry per distinct
\* canonical name (a mapped participant under its canonicalName, an unmapped one
\* under its own name), and each entry's alternateNames and platforms hold the
\* name and platform of every source participant folded into it, also when two
\* unmapped participants of different platforms share a name.
C16_ParticipantsAggregate ==
    Merged =>
        \A identityMap \in IdentityMaps :
            \A members \in MemberSets :
                \A o \in DOMAIN conversations : IsMerged(conversations[o]) =>
                    LET ps == conversations[o].participants
                    IN  /\ \A i, j \in DOMAIN ps : ps[i].name = ps[j].name => i = j
                        /\ {ps[i].name : i \in DOMAIN ps} =
                                UNION {{CanonicalNameAt(parsedConversations[k], identityMap, i) :
                                            i \in DOMAIN parsedConversations[k].participants}
                                        : k \in members[o]}
                        /\ \A k \in members[o] :
                                \A i \in DOMAIN parsedConversations[k].participants :
                                    \A e \in DOMAIN ps :
                                        ps[e].name = CanonicalNameAt(parsedConversations[k],
                                                                     identityMap, i) =>
                                            /\ parsedConversations[k].participants[i].name
                                                    \in Range(ps[e].alternateNames)
                                            /\ parsedConversations[k].participants[i].platform
                                                    \in Range(ps[e].platforms)

\* the provenance record of an input conversation
Provenance(conv) ==
    [title |-> conv.title, source |-> conv.source,
     messageCount |-> Len(conv.messages), dateRange |-> conv.dateRange]

RECURSIVE SumMessageCount(_)
SumMessageCount(records) ==
    IF Len(records) = 0 THEN 0
    ELSE records[1].messageCount + SumMessageCount(Tail(records))

\* C17: a merged conversation's sourceConversations holds exactly one provenance
\* record {title, source, messageCount, dateRange} per member conversation, in
\* ascending order of the members' dateRange.start, each messageCount being that
\* member's message count, so that the messageCounts add up to totalMessages.
C17_SourceConversations ==
    Merged =>
        \A members \in MemberSets :
            \A o \in DOMAIN conversations : IsMerged(conversations[o]) =>
                \A sc \in {conversations[o].sourceConversations} :
                    /\ Len(sc) = Cardinality(members[o])
                    /\ \A k \in members[o] :
                            Cardinality({i \in DOMAIN sc :
                                            sc[i] = Provenance(parsedConversations[k])})
                                = Cardinality({m \in members[o] :
                                    Provenance(parsedConversations[m])
                                        = Provenance(parsedConversations[k])})
                    /\ \A i, j \in DOMAIN sc : i < j => startTime(sc[i]) <= startTime(sc[j])
                    /\ SumMessageCount(sc) = conversations[o].totalMessages

\* C17 witness: a merged conversation whose members came in the input list in
\* descending order of start date.
C17_Witness ==
    /\ Merged
    /\ \E members \in MemberSets :
        \E o \in DOMAIN conversations :
            /\ IsMerged(conversations[o])
            /\ \E x, y \in members[o] :
                /\ x < y
                /\ startTime(parsedConversations[x]) > startTime(parsedConversations[y])
            /\ Len(conversations[o].sourceConversations) >= 2

\* input conversation k is the only member of its group
Singleton(k, keys) ==
    \A k2 \in DOMAIN parsedConversations : k2 # k => keys[k2] # keys[k]

\* C18: for any mapping list a conversation that is the only member of its group
\* is returned unchanged by mergeConversations: same conversationId, title,
\* participants and messages, isMerged not set, and none of its messages has its
\* sender rewritten or gets originalSender, even if one of its participants is
\* mapped.
C18_SingletonPassThrough ==
    [][MergeStep =>
        \A identityMap \in IdentityMaps :
            \A keys \in {ExpectedKeys(identityMap)} :
                \A k \in DOMAIN parsedConversations : Singleton(k, keys) =>
                    /\ \E o \in DOMAIN conversations' :
                            conversations'[o] = parsedConversations[k]
                    /\ \A id \in Range(parsedConversations[k].messages) :
                            heap'[id] = heap[id]]_vars

\* C18 witness: a conversation with a mapped participant was alone in its group
\* and came back as it was, next to a merged conversation.
C18_Witness ==
    /\ Merged /\ merges = 1
    /\ \E identityMap \in IdentityMaps :
        \E k \in DOMAIN parsedConversations :
            /\ Singleton(k, ExpectedKeys(identityMap))
            /\ MappedParticipants(parsedConversations[k], identityMap) # {}
            /\ \E id \in Range(parsedConversations[k].messages) :
                    Key(heap[id].sender, parsedConversations[k].conversationId)
                        \in DOMAIN identityMap
            /\ \E o \in DOMAIN conversations : conversations[o] = parsedConversations[k]
    /\ \E o \in DOMAIN conversations : IsMerged(conversations[o])

\* the fields of a message object the merge must leave alone
FrameOf(msg) ==
    [content |-> msg.content, timestamp |-> msg.timestamp, date |-> msg.date,
     type |-> msg.type, metadata |-> msg.metadata]

\* C19: mergeConversations leaves the adapter output unchanged but for the sender
\* rewrite: every input conversation keeps its conversationId, title,
\* participants, dateRange, totalMessages and its messages sequence (order and
\* membership), every message keeps its content, timestamp, type and metadata,
\* and only messages of groups being merged may change sender.
C19_FrameOfMerge ==
    [][MergeStep =>
        /\ parsedConversations' = parsedConversations
        /\ DOMAIN heap' = DOMAIN heap
        /\ \A id \in DOMAIN heap :
            /\ FrameOf(heap'[id]) = FrameOf(heap[id])
            /\ heap'[id] # heap[id] =>
                    \E o \in DOMAIN conversations' :
                        /\ IsMerged(conversations'[o])
                        /\ id \in Range(conversations'[o].messages)]_vars

\* C19 witness: after one merge some message has a new sender while the messages
\* of a conversation outside the merged group have none.
C19_Witness ==
    /\ Merged /\ merges = 1
    /\ \E id \in DOMAIN heap :
            Has(heap[id], "originalSender") /\ heap[id].originalSender # heap[id].sender
    /\ \E o \in DOMAIN conversations :
        /\ ~IsMerged(conversations[o])
        /\ Len(conversations[o].messages) > 0
        /\ \A id \in Range(conversations[o].messages) : ~Has(heap[id], "originalSender")

\* totalMessages and dateRange of conv agree with its message records msgs
Dated(conv, msgs) ==
    /\ conv.totalMessages = Len(msgs)
    /\ IF Len(msgs) = 0
       THEN conv.dateRange.start = Null /\ conv.dateRange.end = Null
       ELSE /\ \E i \in DOMAIN msgs :
                /\ \A j \in DOMAIN msgs : msgs[i].timestamp <= msgs[j].timestamp
                /\ conv.dateRange.start = Some(msgs[i].date)
            /\ \E i \in DOMAIN msgs :
                /\ \A j \in DOMAIN msgs : msgs[j].timestamp <= msgs[i].timestamp
                /\ conv.dateRange.end = Some(msgs[i].date)

\* the message records of a conversation that holds message objects
Records(conv) == [i \in DOMAIN conv.messages |-> heap[conv.messages[i]]]

DatedTextWitness ==
    /\ Returned
    /\ call = "parseWhatsAppFormat"
    /\ \/ Len(ret.value.messages) = 0
       \/ ~nonDecreasing(WhatsAppEmitted(file.content))

\* the keys mapping names: none if it lacks person1 or person2
KeysOf(mapping) ==
    IF Incomplete(mapping) THEN {}
    ELSE {PersonKey(mapping.person1[1]), PersonKey(mapping.person2[1])}

\* the position in mappings of the last mapping that names key
LastNaming(key) ==
    CHOOSE j \in DOMAIN mappings :
        /\ key \in KeysOf(mappings[j])
        /\ \A k \in DOMAIN mappings : key \in KeysOf(mappings[k]) => k <= j

\* C27: after the identity map is built from any mapping list, for every
\* complete mapping at index i both keys (person1.name, person1.conversationId)
\* and (person2.name, person2.conversationId) resolve to an identity with
\* canonicalId "merged-i" and canonicalName person1.name, also when another
\* mapping names the same participant record; a mapping missing person1 or
\* person2 registers no key and does not change the indices used for the other
\* mappings.
C27_BothKeysResolve ==
    Merged =>
        \A identityMap \in IdentityMaps :
            /\ DOMAIN identityMap = UNION {KeysOf(mappings[i]) : i \in DOMAIN mappings}
            /\ \A i \in DOMAIN mappings :
                \A key \in KeysOf(mappings[i]) :
                    /\ identityMap[key].canonicalId = "merged-" \o ToString(i - 1)
                    /\ identityMap[key].canonicalName = mappings[i].person1[1].name

\* C27, with a key named by several mappings resolved by the last of them: every
\* key of a complete mapping resolves to the identity of the last complete
\* mapping that names it, with canonicalId "merged-j" and canonicalName
\* person1.name of that mapping, j being its index in the whole list; so both
\* keys of the mapping at index i resolve to "merged-i" and its person1.name
\* unless a later mapping names the same participant record; a mapping missing
\* person1 or person2 registers no key and does not change the indices.
C27_LastMappingWins ==
    Merged =>
        \A identityMap \in IdentityMaps :
            /\ DOMAIN identityMap = UNION {KeysOf(mappings[i]) : i \in DOMAIN mappings}
            /\ \A key \in DOMAIN identityMap :
                \A j \in {LastNaming(key)} :
                    /\ identityMap[key].canonicalId = "merged-" \o ToString(j - 1)
                    /\ identityMap[key].canonicalName = mappings[j].person1[1].name

\* C27 witness: two complete mappings with different person1 names share one
\* participant record.
C27_Witness ==
    /\ Merged
    /\ Len(mappings) = 2
    /\ KeysOf(mappings[1]) \cap KeysOf(mappings[2]) # {}
    /\ KeysOf(mappings[1]) # KeysOf(mappings[2])
    /\ mappings[1].person1[1].name # mappings[2].person1[1].name
    /\ \E key \in KeysOf(mappings[1]) : createIdentityMap(mappings)[key].canonicalId = "merged-1"
    /\ \E key \in KeysOf(mappings[1]) : createIdentityMap(mappings)[key].canonicalId = "merged-0"

\* C28: with a non-empty mapping list, a conversation none of whose (participant
\* name, conversationId) keys is in the identity map is never combined with any
\* other conversation: it appears in the output as itself, not merged, even when
\* another input conversation has the same conversationId or when its
\* conversationId equals some canonicalId "merged-<i>".
C28_UnmappedStaysAlone ==
    (Merged /\ Len(mappings) > 0) =>
        \A identityMap \in IdentityMaps :
            \A k \in DOMAIN parsedConversations :
                MappedParticipants(parsedConversations[k], identityMap) = {} =>
                    \E o \in DOMAIN conversations :
                        /\ conversations[o] = parsedConversations[k]
                        /\ ~IsMerged(conversations[o])
                        /\ OutputsOf(k) = {o}

\* C29: merging the same adapter output a second time with the same mapping list
\* yields the same result as the first merge: after the second call every
\* message has the same sender as after the first call and its originalSender
\* still equals the sender the adapter produced (the originalSender the first
\* merge recorded), also when one mapping's canonical name is itself a mapped
\* (name, conversationId) key of another mapping.
C29_SecondMergeSame ==
    [][(MergeStep /\ merges >= 1) =>
        /\ conversations' = conversations
        /\ \A id \in DOMAIN heap :
            /\ heap'[id].sender = heap[id].sender
            /\ Has(heap'[id], "originalSender") =>
                    /\ Has(heap[id], "originalSender")
                    /\ heap'[id].originalSender = heap[id].originalSender]_vars

----------------------------------------------------------------------------
(* Specification SpecE2E: upload of a Facebook and an Instagram export, then   *)
(* one identity mapping alice_ig == Alice (App.js)                             *)

E2ETimes == {10, 30, 50}
E2ETimesIg == {20, 30}

E2EFacebookFiles ==
    { JsonFile(NameFbJson,
        [participants |-> ps,
         messages |-> <<FbText("Alice", "hello", t[1]), FbText("Bob", "hey", t[2]),
                        FbText("Alice", "bye", t[3])>>])
        : ps \in {<<[name |-> "Alice"], [name |-> "Bob"]>>,
                  <<[name |-> "Bob"], [name |-> "Alice"]>>},
          t \in [1..3 -> E2ETimes] }

E2EInstagramFiles ==
    { JsonFile(NameIgJson, d)
        : d \in UNION {
            { [participants |-> <<"alice_ig", "Bob">>,
               messages |-> <<IgText("alice_ig", "hi", u[1]), IgText("Bob", "yo", u[2])>>],
              [participants |-> <<"alice_ig", "Bob">>, threadName |-> "alice_ig",
               messages |-> <<IgText("alice_ig", "hi", u[1]), IgText("Bob", "yo", u[2])>>] }
            : u \in [1..2 -> E2ETimesIg] } }

InitE2E ==
    /\ \E fb \in E2EFacebookFiles, ig \in E2EInstagramFiles :
            files \in {<<fb, ig>>, <<ig, fb>>}
    /\ parsedConversations = <<>>
    /\ heap = <<>>
    /\ mappings = <<>>
    /\ conversations = <<>>
    /\ merges = 0
    /\ mappingPairs = <<>>
    /\ pos = 0 /\ results = <<>> /\ errors = <<>>
    /\ file = Null /\ call = "none" /\ ret = Null

\* handleFileUpload(e): parse the batch, keep the adapter output; a single
\* conversation is shown directly, several open the identity mapper
FileUpload ==
    /\ call = "none"
    /\ \E parsed \in {parseConversations(files)} :
        \E held \in {allocate(parsed.conversations)} :
            /\ parsedConversations' = held.conversations
            /\ heap' = held.heap
            /\ errors' = parsed.errors
            /\ conversations' = IF Len(parsed.conversations) = 1
                                THEN held.conversations ELSE conversations
    /\ call' = "handleFileUpload"
    /\ UNCHANGED <<file, ret, files, pos, results, mappings, merges, mappingPairs>>

\* the record the identity mapper builds for a participant of a conversation
participantRecord(conv, name) ==
    Person(name, conv.source, conv.conversationId, conv.title)

\* the identity mapper completes with the one pair alice_ig == Alice (either
\* side first): handleComplete, then handleIdentityMappingComplete(mappings)
IdentityMappingComplete ==
    /\ call = "handleFileUpload"
    /\ Len(parsedConversations) > 1
    /\ \E i, j \in DOMAIN parsedConversations :
        /\ parsedConversations[i].source = "instagram"
        /\ parsedConversations[j].source = "facebook"
        /\ LET ig == participantRecord(parsedConversations[i], "alice_ig")
               fb == participantRecord(parsedConversations[j], "Alice")
           IN  mappings' \in {<<Mapping(Some(ig), Some(fb))>>, <<Mapping(Some(fb), Some(ig))>>}
    /\ LET m == mergeConversations(parsedConversations, mappings', heap)
       IN  /\ conversations' = m.conversations
           /\ heap' = m.heap
    /\ merges' = merges + 1
    /\ call' = "mergeConversations"
    /\ UNCHANGED <<file, ret, files, pos, results, errors, parsedConversations,
                   mappingPairs>>

NextE2E == FileUpload \/ IdentityMappingComplete

SpecE2E == InitE2E /\ [][NextE2E]_vars

\* C8: a Facebook conversation between Alice and Bob with 3 messages and an
\* Instagram conversation between alice_ig and Bob with 2 messages, merged with
\* the single mapping alice_ig == Alice, yield exactly one output conversation,
\* with isMerged = true, 5 messages sorted by timestamp and exactly 2 canonical
\* participants.
C8_EndToEnd ==
    Merged =>
        /\ Len(conversations) = 1
        /\ IsMerged(conversations[1])
        /\ Len(conversations[1].messages) = 5
        /\ conversations[1].totalMessages = 5
        /\ \A i, j \in DOMAIN conversations[1].messages :
                i < j => heap[conversations[1].messages[i]].timestamp
                            <= heap[conversations[1].messages[j]].timestamp
        /\ Len(conversations[1].participants) = 2

\* C8 witness: the two exports were merged and their messages interleave in time.
C8_Witness ==
    /\ Merged
    /\ Len(conversations) = 1
    /\ \E i \in 1..3 :
            /\ conversations[1].messages[i][1] # conversations[1].messages[i + 1][1]
            /\ conversations[1].messages[i + 1][1] # conversations[1].messages[i + 2][1]

----------------------------------------------------------------------------
(* Specification SpecMapper: the identity mapper shown on the adapters'      *)
(* output, edited row by row and completed into the merger                   *)

\* the uploaded batches the mapper is opened on (more than one conversation)
MapperFiles ==
    { <<MergeFileFacebook, MergeFileInstagram>>,
      <<MergeFileInstagram, MergeFileThread7>>,
      <<MergeFileFacebook, MergeFileFacebook>>,
      <<MergeFileFacebook, MergeFileInstagram, MergeFileThread7>> }

\* every participant of every conversation once per key
\* name|||platform|||conversationId (the adapters' participants are objects)
allParticipants ==
    LET entries ==
        Flatten([k \in DOMAIN parsedConversations |->
            [j \in DOMAIN parsedConversations[k].participants |->
                LET conv == parsedConversations[k]
                    name == conv.participants[j].name
                    platform == IF Has(conv, "source") /\ conv.source # ""
                                THEN conv.source ELSE "unknown"
                IN  [name |-> name,
                     platform |-> platform,
                     conversationId |-> conv.conversationId,
                     conversationTitle |-> conv.title,
                     key |-> name \o "|||" \o platform \o "|||" \o conv.conversationId,
                     displayName |-> name \o " (" \o platform \o ")"]]])
    IN  \* participantMap.set(key, ...) only if (!participantMap.has(key))
        FilterSeq(entries,
            {i \in DOMAIN entries : \A j \in 1..(i - 1) : entries[j].key # entries[i].key})

\* allParticipants.find(p => p.key === key)
findParticipant(key) ==
    LET all == allParticipants
        hits == {i \in DOMAIN all : all[i].key = key}
    IN  IF hits = {} THEN Null ELSE Some(all[Min(hits)])

\* only the other field of the current row hides a participant
getAvailableParticipantsOtherFieldOnly(currentIndex, field) ==
    LET all == allParticipants
    IN  FilterSeq(all,
            {i \in DOMAIN all :
                LET otherField == IF field = "from" THEN "to" ELSE "from"
                IN  mappingPairs[currentIndex][otherField] # all[i].key})

\* the participants not selected in another row nor in the other field of the
\* current row
getAvailableParticipants(currentIndex, field) ==
    LET all == allParticipants
    IN
    FilterSeq(all,
        {i \in DOMAIN all :
            LET p == all[i]
                isUsedElsewhere ==
                    \E idx \in DOMAIN mappingPairs :
                        /\ idx # currentIndex
                        /\ mappingPairs[idx].from = p.key \/ mappingPairs[idx].to = p.key
                otherField == IF field = "from" THEN "to" ELSE "from"
                isUsedInOtherField == mappingPairs[currentIndex][otherField] = p.key
            IN  ~isUsedElsewhere /\ ~isUsedInOtherField})

InitMapper ==
    /\ files \in MapperFiles
    /\ parsedConversations = allocate(parseConversations(files).conversations).conversations
    /\ heap = allocate(parseConversations(files).conversations).heap
    /\ mappingPairs = <<[from |-> "", to |-> ""]>>
    /\ mappings = <<>>
    /\ conversations = <<>>
    /\ merges = 0
    /\ pos = 0 /\ results = <<>> /\ errors = <<>>
    /\ file = Null /\ call = "none" /\ ret = Null

\* addMappingPair()
AddMappingPair ==
    /\ call = "none"
    /\ Len(mappingPairs) < MaxPairs
    /\ mappingPairs' = Append(mappingPairs, [from |-> "", to |-> ""])
    /\ UNCHANGED <<file, call, ret, files, pos, results, errors, parsedConversations,
                   mappings, heap, conversations, merges>>

\* removeMappingPair(index): the button is there while there are several rows
RemoveMappingPair ==
    /\ call = "none"
    /\ Len(mappingPairs) > 1
    /\ \E index \in DOMAIN mappingPairs :
        mappingPairs' = FilterSeq(mappingPairs, DOMAIN mappingPairs \ {index})
    /\ UNCHANGED <<file, call, ret, files, pos, results, errors, parsedConversations,
                   mappings, heap, conversations, merges>>

\* updateMapping(index, field, value), value an option of that select:
\* "Select person...", an available participant, or the current selection when
\* it names a participant
UpdateMapping ==
    /\ call = "none"
    /\ \E index \in DOMAIN mappingPairs, field \in {"from", "to"} :
        \E value \in {""}
                \cup {p.key : p \in Range(getAvailableParticipants(index, field))}
                \cup (IF findParticipant(mappingPairs[index][field]) # Null
                      THEN {mappingPairs[index][field]} ELSE {}) :
            mappingPairs' = [mappingPairs EXCEPT ![index][field] = value]
    /\ UNCHANGED <<file, call, ret, files, pos, results, errors, parsedConversations,
                   mappings, heap, conversations, merges>>

\* handleComplete(): without a complete pair onSkip(), else onComplete of the
\* formatted mappings, which merges the adapters' conversations
HandleComplete ==
    /\ call = "none"
    /\ LET completePairs ==
                FilterSeq(mappingPairs,
                    {i \in DOMAIN mappingPairs :
                        mappingPairs[i].from # "" /\ mappingPairs[i].to # ""})
           formatted(p) == Person(p.name, p.platform, p.conversationId, p.conversationTitle)
           formattedMappings ==
                [i \in DOMAIN completePairs |->
                    Mapping(Some(formatted(findParticipant(completePairs[i].from)[1])),
                            Some(formatted(findParticipant(completePairs[i].to)[1])))]
       IN  IF Len(completePairs) = 0
           THEN /\ conversations' = parsedConversations
                /\ call' = "skip"
                /\ UNCHANGED <<mappings, heap, merges>>
           ELSE /\ mappings' = formattedMappings
                /\ LET m == mergeConversations(parsedConversations, formattedMappings, heap)
                   IN  /\ conversations' = m.conversations
                       /\ heap' = m.heap
                /\ merges' = merges + 1
                /\ call' = "mergeConversations"
    /\ UNCHANGED <<file, ret, files, pos, results, errors, parsedConversations,
                   mappingPairs>>

NextMapper ==
    AddMappingPair \/ RemoveMappingPair \/ UpdateMapping \/ HandleComplete \/ MappingSkip

SpecMapper == InitMapper /\ [][NextMapper]_vars

----------------------------------------------------------------------------
(* Claims about the identity mapper (SpecMapper) *)

\* the from/to slots of all rows, in order
Slots == Flatten([i \in DOMAIN mappingPairs |-> <<mappingPairs[i].from, mappingPairs[i].to>>])

\* the participant records the mappings name, in order
NamedRecords ==
    Flatten([i \in DOMAIN mappings |-> <<mappings[i].person1[1], mappings[i].person2[1]>>])

\* C30: after any sequence of add-row, remove-row and select actions, each
\* selection being one of the options offered for that field at that moment, no
\* participant key is selected in more than one from/to slot across all rows,
\* and the mappings handed to the merger never name the same participant record
\* twice.
C30_NoKeyTwice ==
    /\ \A a, b \in DOMAIN Slots : (Slots[a] # "" /\ Slots[a] = Slots[b]) => a = b
    /\ Merged => \A a, b \in DOMAIN NamedRecords : NamedRecords[a] = NamedRecords[b] => a = b

\* every slot of two rows is filled and both pairs were handed to the merger
C30_Witness ==
    /\ Merged
    /\ Len(mappingPairs) = 2
    /\ \A a \in DOMAIN Slots : Slots[a] # ""
    /\ Len(mappings) = 2

====
